---- MODULE Spec2Model ----
(***************************************************************************)
(* Smart-Thermometer: the ingestion-and-history core of                    *)
(* SmartThermometerProgram.py (Flask handler receive_data, Tk callbacks    *)
(* toggle_sensor_cmd and periodic_update, check_alerts, save_history /     *)
(* load_history) and of its sibling smartguireal.py.                       *)
(*                                                                         *)
(* Time is counted in half-seconds: time.time() is the variable now.       *)
(* A temperature or a history entry is a record [k, v]: k = "num" with the *)
(* value v in degrees Celsius, k = "nan" (float('nan')), k = "none" (None) *)
(* or k = "str" (a JSON string, which float() cannot parse).               *)
(***************************************************************************)
EXTENDS Integers, Sequences, FiniteSets, TLC

\* ------------------------------------------------------------------ values
Num(x) == [k |-> "num", v |-> x]
NaN == [k |-> "nan", v |-> 0]
None == [k |-> "none", v |-> 0]
Str == [k |-> "str", v |-> 0]

IsNone(x) == x.k = "none"
\* math.isnan(v), asked of a float
IsNaN(x) == x.k = "nan"
\* isinstance(v, (int, float))
IsNumber(x) == x.k \in {"num", "nan"}
\* plot_segments / redraw_graph: an entry is missing when it is None or NaN
Missing(x) == x.k \in {"none", "nan"}

\* ------------------------------------------------------- program constants
\* receive_data: the 1.0 s "cooldown" after a GUI change, in half-seconds
DEBOUNCE == 2
\* 2.0 s, in half-seconds
THIRD_BOX_TIMEOUT_S == 4
\* 30 s, in half-seconds
ALERT_COOLDOWN == 60
\* 1000 ms, in half-seconds
UPDATE_INTERVAL_MS == 2
\* check_alerts thresholds of SmartThermometerProgram.py
HIGH_ALERT_C == 32
LOW_ALERT_C == 21
\* thresholds of smartguireal.py
HIGH_C == 32
LOW_C == 18
\* STClaudeGUI.py: max_temp and min_temp as __init__ sets them
MAX_TEMP == 30
MIN_TEMP == 18

\* ------------------------------------------------------------------ bounds
\* The rolling window: 500 entries in the program, scaled down here.
MAX_HISTORY_SEC == 2
\* time.time() when the process starts, long after the epoch (0.0)
StartTime == 100
\* the clock runs from StartTime to StartTime + MaxTime
MaxTime == 3
\* the same for SpecHist, whose clock steps by whole seconds
MaxTimeHist == 6
\* the same for SpecGate
MaxTimeGate == 4
\* requests in flight plus messages waiting in data_queue; in SpecDrain,
\* plus the messages taken by the drain in progress
MaxQueue == 1
MaxQueueDrain == 2
\* the same bounds for SpecConc
MaxTimeConc == 2
\* the same for SpecDrain, whose clock steps by whole seconds
MaxTimeDrain == 4
\* SpecLabel: the clock stops MaxTimeLabel half-seconds after the start
MaxTimeLabel == 2
\* SpecStamp: the clock stops MaxTimeStamp half-seconds after the start
MaxTimeStamp == 3
\* FairSpecLoop: the clock stops MaxTimeLoop half-seconds after the start
MaxTimeLoop == 2
\* FairSpecLoop: a request begins while fewer than MaxQueueLoop messages are
\* queued, on their way to the queue or held by the tick
MaxQueueLoop == 3
\* the same for SpecReal: six ticks, one for each reading of the example
MaxTimeReal == 12
\* in SpecReal, requests carry any readings until StartTime + MaxTimeFree
MaxTimeFree == 5
\* the clock of SpecAlerts: one cooldown and a bit more
MaxTimeAlerts == 61
MaxTimeTicks == 4
MaxTimeRequests == 3
MaxTimeGraph == 4
MaxLenSegments == 4
MaxTimeRealStart == 4
\* SpecRealAlerts: the clock stops MaxTimeRealAlerts half-seconds after the start
MaxTimeRealAlerts == 6
\* SpecPerSensor: the clock stops MaxTimePerSensor half-seconds after the start
MaxTimePerSensor == 4
\* SpecFrame: the clock stops MaxTimeFrame half-seconds after the start
MaxTimeFrame == 2
MaxTimeSend == 4
\* SpecClaude: the clock, the alerts sent before the last update is handed
\* over, and the capacity of temp1_data / temp2_data / time_data (300 in
\* the code)
MaxTimeClaude == 2
MaxAlertsClaude == 2
TEMP_DATA_MAXLEN == 2
\* the number of entries drawn (300 in the program, 200 fewer than
\* MAX_HISTORY_SEC)
GRAPH_TIME_SPAN == 1

Sensors == {1, 2}
SensorKey(s) == IF s = 1 THEN "sensor1" ELSE "sensor2"
CommandKeys == {"sensor1", "sensor2", "display_on"}
AlertKeys == {"sensor1_high", "sensor1_low", "sensor2_high", "sensor2_low"}

VARIABLES
    now,              \* time.time()
    command_state,    \* global command_state
    last_changed,     \* global last_changed
    data_queue,       \* global data_queue (queue.Queue, FIFO)
    last_alert_time,  \* global last_alert_time
    last_alert_state, \* global last_alert_state of smartguireal.py
    sms,              \* the messages handed to client.messages.create, in order
    file,             \* the content of PERSISTENCE_FILE
    temps_c,          \* self.temps_c
    sensors_enabled,  \* self.sensors_enabled
    third_box_on,     \* self.third_box_on
    last_recv_time,   \* self.last_recv_time
    history_1,        \* self.history_1
    history_2,        \* self.history_2
    display_units,    \* self.display_units
    labels,           \* text of self.temp_label_1 / temp_label_2
    next_tick,        \* the time root.after(UPDATE_INTERVAL_MS, ...) asked for
    gui,              \* the Tk main thread: its position and its locals
    handlers,         \* the Flask request threads: position and locals of each
    app,              \* the fields only ThermometerGUI of STClaudeGUI.py has
    obs               \* history variable: what the properties compare against

vars == <<now, command_state, last_changed, data_queue, last_alert_time, last_alert_state, sms,
          file, temps_c, sensors_enabled, third_box_on, last_recv_time,
          history_1, history_2, display_units, labels, next_tick, gui, handlers,
          app, obs>>

\* ------------------------------------------------------------- persistence
\* A JSON value of the persisted arrays: a number, NaN, null or a string.
JsonNumber(x) == [j |-> "number", v |-> x]
JsonNaN == [j |-> "NaN", v |-> 0]
JsonNull == [j |-> "null", v |-> 0]
JsonString == [j |-> "string", v |-> 0]

\* json.dump of one entry (allow_nan is on: float('nan') is written as NaN)
JsonDumpValue(x) ==
    CASE x.k = "num" -> JsonNumber(x.v)
      [] x.k = "nan" -> JsonNaN
      [] x.k = "none" -> JsonNull
      [] OTHER -> JsonString

\* json.load of one entry
JsonLoadValue(t) ==
    CASE t.j = "number" -> Num(t.v)
      [] t.j = "NaN" -> NaN
      [] t.j = "null" -> None
      [] OTHER -> Str

JsonDumpList(h) == [i \in 1..Len(h) |-> JsonDumpValue(h[i])]
JsonLoadList(a) == [i \in 1..Len(a) |-> JsonLoadValue(a[i])]

\* The content of PERSISTENCE_FILE: no file, text json.load rejects, JSON
\* that is no object, or the document {"history_1": v1, "history_2": v2}.
\* shape tells what v1 and v2 are: "array" (its entries are in history_<i>;
\* a key that is absent reads as the empty array), "string" (its characters
\* are in history_<i>), "number" (a number other than 0) or "null".
ArrayShapes == <<"array", "array">>
FileAbsent == [t |-> "absent", history_1 |-> <<>>, history_2 |-> <<>>, shape |-> ArrayShapes]
FileGarbage == [t |-> "garbage", history_1 |-> <<>>, history_2 |-> <<>>, shape |-> ArrayShapes]
FileNonObject == [t |-> "nonobject", history_1 |-> <<>>, history_2 |-> <<>>, shape |-> ArrayShapes]
FileDoc(a1, a2) == [t |-> "doc", history_1 |-> a1, history_2 |-> a2, shape |-> ArrayShapes]
FileDocShaped(a1, a2, shapes) == [FileDoc(a1, a2) EXCEPT !.shape = shapes]

\* What load_history hands back for one history: None, a list, or whatever
\* else the document holds under the key (iterable: a string; not
\* iterable: a number).
LoadedNone == [isNone |-> TRUE, items |-> <<>>, iterable |-> FALSE, truthy |-> FALSE]
LoadedList(l) == [isNone |-> FALSE, items |-> l, iterable |-> TRUE, truthy |-> Len(l) > 0]
LoadedString(l) == LoadedList(l)
LoadedNumber == [isNone |-> FALSE, items |-> <<>>, iterable |-> FALSE, truthy |-> TRUE]

\* data.get("history_<i>", []) of a parsed document
LoadedField(items, shape) ==
    CASE shape = "array" -> LoadedList(JsonLoadList(items))
      [] shape = "string" -> LoadedString(JsonLoadList(items))
      [] shape = "number" -> LoadedNumber
      [] OTHER -> LoadedNone

\* save_history(history_1, history_2): the file it leaves. open() may fail
\* (file untouched) and the write may fail after open() truncated the file;
\* both exceptions are swallowed.
SaveOutcomes == {"ok", "open_fails", "write_fails"}
save_history(h1, h2, outcome, old) ==
    CASE outcome = "ok" -> FileDoc(JsonDumpList(h1), JsonDumpList(h2))
      [] outcome = "open_fails" -> old
      [] OTHER -> FileGarbage

\* load_history(): the pair (loaded1, loaded2)
load_history(f) ==
    IF f.t = "doc"
    THEN <<LoadedField(f.history_1, f.shape[1]), LoadedField(f.history_2, f.shape[2])>>
    ELSE <<LoadedNone, LoadedNone>>

\* Python truth value of what load_history returned: None and [] are false
Truthy(l) == l.truthy

\* lst[-n:]
LastN(lst, n) == IF Len(lst) <= n THEN lst ELSE SubSeq(lst, Len(lst) - n + 1, Len(lst))
\* [float('nan')] * n
NaNs(n) == [i \in 1..n |-> NaN]
\* a variant of DequeAppend: a deque without maxlen
DequeAppendUnbounded(h, x) == Append(h, x)

\* collections.deque(maxlen=MAX_HISTORY_SEC).append(x)
DequeAppend(h, x) ==
    IF Len(h) >= MAX_HISTORY_SEC THEN Tail(h) \o <<x>> ELSE Append(h, x)

\* __init__: v if (v is None or (isinstance(v, (int, float)) and not isnan(v)))
\* else float('nan')
Sanitize(l) ==
    [i \in 1..Len(l) |->
        IF IsNone(l[i]) \/ (IsNumber(l[i]) /\ ~IsNaN(l[i])) THEN l[i] ELSE NaN]

\* a variant of LoadedHistory: the padding goes to the newest side
LoadedHistoryPaddedRight(l) ==
    LET kept == LastN(Sanitize(l), MAX_HISTORY_SEC)
    IN kept \o NaNs(MAX_HISTORY_SEC - Len(kept))

\* __init__: one history built from a loaded list
LoadedHistory(l) ==
    LET kept == LastN(Sanitize(l), MAX_HISTORY_SEC)
    IN IF Len(kept) < MAX_HISTORY_SEC
       THEN NaNs(MAX_HISTORY_SEC - Len(kept)) \o kept
       ELSE kept

\* __init__: "for v in loaded1" / "for v in loaded2" raises TypeError when
\* the loaded value is true and cannot be iterated; nothing catches it
InitRaises(f) ==
    LET loaded == load_history(f)
    IN /\ Truthy(loaded[1]) /\ Truthy(loaded[2])
       /\ (~loaded[1].iterable \/ ~loaded[2].iterable)

\* __init__: the pair (self.history_1, self.history_2) built from the file;
\* neither attribute exists when __init__ raised
InitialHistories(f) ==
    LET loaded == load_history(f)
    IN IF InitRaises(f) THEN <<(<<>>), (<<>>)>>
       ELSE IF Truthy(loaded[1]) /\ Truthy(loaded[2])
       THEN <<LoadedHistory(loaded[1].items), LoadedHistory(loaded[2].items)>>
       ELSE <<NaNs(MAX_HISTORY_SEC), NaNs(MAX_HISTORY_SEC)>>

\* ------------------------------------------------------------------ graph
\* c_to_f(celsius) = (celsius * 9 / 5) + 32, kept exact: the result is
\* counted in fifths of a degree Fahrenheit
c_to_f(celsius) == [k |-> "fifths", v |-> celsius.v * 9 + 32 * 5]

\* a variant of GraphWindow: the oldest entries are taken
GraphWindowOldest(y_full) ==
    IF Len(y_full) < GRAPH_TIME_SPAN
    THEN NaNs(GRAPH_TIME_SPAN - Len(y_full)) \o y_full
    ELSE SubSeq(y_full, 1, GRAPH_TIME_SPAN)

\* redraw_graph: pad + y_full when the history is shorter than
\* GRAPH_TIME_SPAN, else y_full[-GRAPH_TIME_SPAN:]
GraphWindow(y_full) ==
    IF Len(y_full) < GRAPH_TIME_SPAN
    THEN NaNs(GRAPH_TIME_SPAN - Len(y_full)) \o y_full
    ELSE LastN(y_full, GRAPH_TIME_SPAN)

\* redraw_graph: the list y<s> handed to plot_segments, converted when the
\* display unit is F
GraphSeries(history, units) ==
    LET y == GraphWindow(history)
    IN IF units = "F"
       THEN [i \in 1..Len(y) |->
               IF ~IsNone(y[i]) /\ ~IsNaN(y[i]) THEN c_to_f(y[i]) ELSE NaN]
       ELSE y

\* x = list(range(n, 0, -1)): the seconds ago of the n entries drawn
SecondsAgo(n) == [i \in 1..n |-> n - i + 1]

\* a variant of FlushLast: the run still open at the end is dropped
FlushLastNever(segments, current) == segments

\* get_segments / plot_segments after the loop: "if current_x:" the run
\* still open is emitted
FlushLast(segments, current) ==
    IF current.x # <<>> THEN Append(segments, current) ELSE segments

\* the loop of get_segments (SmartThermometerGUI.py) from index i on, and
\* what follows it: segments are the runs emitted so far, current the run
\* being collected
RECURSIVE SegmentsFrom(_, _, _, _, _)
SegmentsFrom(i, segments, current, x_data, y_data) ==
    IF i > Len(y_data) THEN FlushLast(segments, current)
    ELSE IF ~Missing(y_data[i])
    THEN SegmentsFrom(i + 1, segments,
                      [x |-> Append(current.x, x_data[i]),
                       y |-> Append(current.y, y_data[i])],
                      x_data, y_data)
    ELSE SegmentsFrom(i + 1,
                      IF current.x # <<>> THEN Append(segments, current) ELSE segments,
                      [x |-> <<>>, y |-> <<>>], x_data, y_data)

\* get_segments(x_data, y_data): the pair (lists of x, lists of y)
get_segments(x_data, y_data) ==
    LET segments == SegmentsFrom(1, <<>>, [x |-> <<>>, y |-> <<>>], x_data, y_data)
    IN <<[j \in 1..Len(segments) |-> segments[j].x],
         [j \in 1..Len(segments) |-> segments[j].y]>>

\* plot_segments(x_vals, y_vals, label, color) of redraw_graph
\* (SmartThermometerProgram.py): the calls of self.ax.plot it makes, the
\* first with the label, the others with ""
plot_segments(x_vals, y_vals, label) ==
    LET segments == SegmentsFrom(1, <<>>, [x |-> <<>>, y |-> <<>>], x_vals, y_vals)
    IN [j \in 1..Len(segments) |->
          [x |-> segments[j].x, y |-> segments[j].y,
           label |-> IF j = 1 THEN label ELSE ""]]

\* ------------------------------------------------------------ start-up
\* no call of periodic_update is scheduled
NoTick == 0 - 1

NoMsg == [temp1 |-> None, temp2 |-> None, server_recv_time |-> 0]
GuiIdle ==
    [pc |-> "idle", got_message |-> FALSE, latest_msg |-> NoMsg,
     desired1 |-> FALSE, desired2 |-> FALSE, sensor_num |-> 1, current |-> FALSE,
     alert_now |-> 0]
NoData == [temp1 |-> None, temp2 |-> None, has1 |-> FALSE, has2 |-> FALSE,
           sensor1 |-> FALSE, sensor2 |-> FALSE]
NoResp == [status |-> "none", sensor1 |-> FALSE, sensor2 |-> FALSE, display_on |-> FALSE]
HandlerIdle == [pc |-> "idle", data |-> NoData, received_time |-> 0, resp |-> NoResp]

\* the Flask request threads modelled (app.run(threaded=True))
Handlers == {1, 2}

\* Observations kept for the properties (no code reads them): the queue when
\* the drain of a tick began and the messages that drain removed, the
\* histories when the tick began, what the latest request reported of each
\* sensor, the value the last toggle_sensor_cmd wrote for each sensor, and
\* what went wrong in the latest tick (a notification call that raised, a
\* save that failed, a reading that is no number), and the series the
\* latest redraw_graph handed to plot_segments for each sensor, and the
\* latest list cut into segments with what get_segments returned and what
\* plot_segments plotted for it, and for each request in progress the values
\* command_state has held since the request began, and of the latest
\* redraw_graph: whether it was called outside a tick, and then the series
\* the redraw before it had drawn and the number of toggle_units calls
\* between the two; pending counts the toggle_units calls since (3 stands
\* for three or more), and the sensors and kinds for which the latest
\* update_temperature_display of STClaudeGUI.py sent an alert, and for each
\* sensor of smartguireal.py whether a high notification has been sent for
\* it with, since then, no low notification and no tick that evaluated a
\* reading of it in [LOW_C, HIGH_C].
ObsNoTick == [queue_at_begin |-> <<>>, drained |-> <<>>, hist_before |-> <<>>]
RedrawInTick == [standalone |-> FALSE, previous |-> <<>>, toggles |-> 0, pending |-> 0]
ObsInit ==
    [tick |-> ObsNoTick,
     reported |-> [s \in Sensors |-> "None"],
     toggled |-> [s \in Sensors |-> FALSE],
     example |-> [pos |-> 0, fired |-> <<>>],
     persist |-> [h1 |-> <<>>, h2 |-> <<>>, constructed |-> FALSE],
     failed |-> [send |-> FALSE, save |-> FALSE, nonnumeric |-> FALSE],
     drawn |-> [s \in Sensors |-> <<>>],
     segments |-> [called |-> FALSE, y_data |-> <<>>, xs |-> <<>>, ys |-> <<>>,
                   plotted |-> <<>>],
     held |-> [h \in Handlers |-> {}],
     redraw |-> RedrawInTick,
     alerted |-> {},
     high_run |-> [s \in Sensors |-> FALSE]]

\* ThermometerGUI.__init__ of STClaudeGUI.py: sensor1_connected and
\* sensor2_connected, time_data, and whether alert_email, alert_phone and
\* email_username hold a non-empty string. The other programs have no such
\* fields and leave them alone.
AppInit ==
    [sensor_connected |-> [s \in Sensors |-> TRUE],
     time_data |-> <<>>,
     alert_email |-> FALSE, alert_phone |-> FALSE, email_username |-> FALSE]

\* the Tk main thread after __init__ raised: main() ends with the exception
\* before root.mainloop(), no callback ever runs
GuiRaised == [GuiIdle EXCEPT !.pc = "raised"]

\* Module globals at import, then SmartThermometerGUI.__init__ with the
\* file f on disk at time t.
Startup(f, t) ==
    /\ now = t
    /\ command_state = [k \in CommandKeys |-> k = "display_on"]
    /\ last_changed = [k \in CommandKeys |-> 0]
    /\ data_queue = <<>>
    /\ last_alert_time = [k \in AlertKeys |-> 0]
    /\ last_alert_state = [s \in Sensors |-> "None"]
    /\ sms = <<>>
    /\ file = f
    /\ temps_c = [s \in Sensors |-> None]
    /\ sensors_enabled = [s \in Sensors |-> FALSE]
    /\ third_box_on = FALSE
    /\ last_recv_time = 0
    /\ history_1 = InitialHistories(f)[1]
    /\ history_2 = InitialHistories(f)[2]
    /\ display_units = "C"
    /\ labels = [s \in Sensors |-> "---"]
    /\ next_tick = IF InitRaises(f) THEN NoTick ELSE t + UPDATE_INTERVAL_MS
    /\ gui = IF InitRaises(f) THEN GuiRaised ELSE GuiIdle
    /\ handlers = [h \in Handlers |-> HandlerIdle]
    /\ app = AppInit
    /\ obs = ObsInit

\* Files found on disk at start-up: none, unreadable, and records shorter
\* than, as long as and longer than the window.
InitialFiles ==
    {FileAbsent, FileGarbage,
     FileDoc(<<JsonNumber(25)>>, <<JsonNaN>>),
     FileDoc([i \in 1..MAX_HISTORY_SEC |-> JsonNumber(25)],
             [i \in 1..MAX_HISTORY_SEC |-> JsonNull]),
     FileDoc([i \in 1..(MAX_HISTORY_SEC + 1) |-> IF i = 1 THEN JsonNumber(33) ELSE JsonNumber(25)],
             [i \in 1..(MAX_HISTORY_SEC + 1) |-> IF i = 1 THEN JsonNumber(33) ELSE JsonNaN])}


\* ------------------------------------------------------------------ alerts
\* check_alerts(sensor_name, temp_c) called at time t; st = [lat, sms] is
\* last_alert_time and the messages sent so far. _send swallows a failure of
\* client.messages.create, so a failed send changes nothing else.
\* a variant of AlertKey: the key names the kind only
AlertKeyOfKind(sensor_name, kind) ==
    IF kind = "high" THEN "sensor1_high" ELSE "sensor1_low"

\* key = f"{sensor_name}_high" / f"{sensor_name}_low"
AlertKey(sensor_name, kind) ==
    IF sensor_name = "sensor1"
    THEN (IF kind = "high" THEN "sensor1_high" ELSE "sensor1_low")
    ELSE (IF kind = "high" THEN "sensor2_high" ELSE "sensor2_low")

\* a variant of AlertBranch: the cooldown is not consulted
AlertBranchNoCooldown(st, key, out_of_range, t) ==
    IF out_of_range
    THEN [lat |-> [st.lat EXCEPT ![key] = t],
          sms |-> Append(st.sms, [key |-> key, at |-> t])]
    ELSE st

\* one threshold branch of check_alerts
AlertBranch(st, key, out_of_range, t) ==
    IF out_of_range /\ t - st.lat[key] >= ALERT_COOLDOWN
    THEN [lat |-> [st.lat EXCEPT ![key] = t],
          sms |-> Append(st.sms, [key |-> key, at |-> t])]
    ELSE st

check_alerts(st, sensor_name, temp_c, t) ==
    IF temp_c.k # "num"
    THEN st    \* None, or float() raises, or NaN compares false with both
    ELSE LET high == AlertBranch(st, AlertKey(sensor_name, "high"),
                                 temp_c.v > HIGH_ALERT_C, t)
         IN AlertBranch(high, AlertKey(sensor_name, "low"),
                        temp_c.v < LOW_ALERT_C, t)

\* ------------------------------------------------------------------- clock
\* time passes: d half-seconds, up to StartTime + limit
Advance(d, limit) ==
    /\ now + d <= StartTime + limit
    /\ now' = now + d
    /\ UNCHANGED <<app, command_state, last_changed, data_queue, last_alert_time, last_alert_state, sms,
                   file, temps_c, sensors_enabled, third_box_on, last_recv_time,
                   history_1, history_2, display_units, labels, next_tick, gui,
                   handlers, obs>>

\* ------------------------------------------------- receive_data, by steps
\* The message put in data_queue, as far as periodic_update uses it
\* (esp_timestamp, esp_sensor1 and esp_sensor2 travel with it and are read
\* into locals that nothing uses).
Message(data, t) ==
    [temp1 |-> data.temp1, temp2 |-> data.temp2, server_recv_time |-> t]

\* data.get("sensor<s>", None) of a request
RawFlag(has, val) == IF ~has THEN "None" ELSE IF val THEN "True" ELSE "False"
Reported(data) ==
    [s \in Sensors |-> IF s = 1 THEN RawFlag(data.has1, data.sensor1)
                       ELSE RawFlag(data.has2, data.sensor2)]

HandlerVarsUnchanged ==
    UNCHANGED <<app, now, last_alert_time, last_alert_state, sms, file, temps_c, sensors_enabled,
                third_box_on, last_recv_time, history_1, history_2,
                display_units, labels, next_tick, gui>>

\* requests that have not yet put their message
InFlight ==
    Cardinality({h \in Handlers :
                    handlers[h].pc \in {"chk1", "set1", "chk2", "set2", "stamp", "put"}})

\* obs.held once command_state is cs and the request threads are at hs
Held(held, cs, hs) ==
    [h \in Handlers |-> IF hs[h].pc = "idle" THEN {} ELSE held[h] \cup {cs}]

\* a request arrives: data = request.json or {}
receive_data_begin(h, data, limit) ==
    /\ handlers[h].pc = "idle"
    /\ Len(obs.tick.drained) + Len(data_queue) + InFlight < limit
    /\ handlers' = [handlers EXCEPT ![h] = [pc |-> "chk1", data |-> data,
                                           received_time |-> 0, resp |-> NoResp]]
    /\ obs' = [obs EXCEPT !.reported = Reported(data),
                          !.held = Held(@, command_state, handlers')]
    /\ UNCHANGED <<app, command_state, last_changed, data_queue>>
    /\ HandlerVarsUnchanged

\* a variant of CooldownOver: the comparison written >=
CooldownOverInclusive(key, t) == t - last_changed[key] >= DEBOUNCE

\* the test of the 1 s cooldown: time.time() - last_changed[key] > 1.0
CooldownOver(key, t) == t - last_changed[key] > DEBOUNCE

\* if "sensor<s>" in data: if time.time() - last_changed[...] > 1.0:
receive_data_check(h, s) ==
    LET me == handlers[h]
        has == IF s = 1 THEN me.data.has1 ELSE me.data.has2
    IN /\ me.pc = (IF s = 1 THEN "chk1" ELSE "chk2")
       /\ handlers' = [handlers EXCEPT ![h].pc =
              IF has /\ CooldownOver(SensorKey(s), now)
              THEN (IF s = 1 THEN "set1" ELSE "set2")
              ELSE (IF s = 1 THEN "chk2" ELSE "stamp")]
       /\ UNCHANGED <<app, command_state, last_changed, data_queue, obs>>
       /\ HandlerVarsUnchanged

\* command_state["sensor<s>"] = bool(data["sensor<s>"])
receive_data_set(h, s) ==
    LET me == handlers[h]
        val == IF s = 1 THEN me.data.sensor1 ELSE me.data.sensor2
    IN /\ me.pc = (IF s = 1 THEN "set1" ELSE "set2")
       /\ command_state' = [command_state EXCEPT ![SensorKey(s)] = val]
       /\ handlers' = [handlers EXCEPT ![h].pc = IF s = 1 THEN "chk2" ELSE "stamp"]
       /\ obs' = [obs EXCEPT !.held = Held(@, command_state', handlers')]
       /\ UNCHANGED <<app, last_changed, data_queue>>
       /\ HandlerVarsUnchanged

\* received_time = time.time()
receive_data_stamp(h) ==
    /\ handlers[h].pc = "stamp"
    /\ handlers' = [handlers EXCEPT ![h].pc = "put", ![h].received_time = now]
    /\ UNCHANGED <<app, command_state, last_changed, data_queue, obs>>
    /\ HandlerVarsUnchanged

\* data_queue.put({...})
receive_data_put(h) ==
    /\ handlers[h].pc = "put"
    /\ data_queue' = Append(data_queue,
                            Message(handlers[h].data, handlers[h].received_time))
    /\ handlers' = [handlers EXCEPT ![h].pc = "resp1"]
    /\ UNCHANGED <<app, command_state, last_changed, obs>>
    /\ HandlerVarsUnchanged

\* resp = {"status": "success", "sensor1": ..., "sensor2": ..., "display_on": ...}
\* read one key after the other, then returned
receive_data_respond(h, k) ==
    LET me == handlers[h]
    IN /\ me.pc = (CASE k = "sensor1" -> "resp1" [] k = "sensor2" -> "resp2"
                     [] OTHER -> "resp3")
       /\ handlers' = [handlers EXCEPT ![h] =
              CASE k = "sensor1" ->
                     [me EXCEPT !.pc = "resp2", !.resp.sensor1 = command_state["sensor1"]]
                [] k = "sensor2" ->
                     [me EXCEPT !.pc = "resp3", !.resp.sensor2 = command_state["sensor2"]]
                [] OTHER ->
                     [pc |-> "idle", data |-> NoData, received_time |-> 0,
                      resp |-> [me.resp EXCEPT !.status = "success",
                                               !.display_on = command_state["display_on"]]]]
       /\ obs' = [obs EXCEPT !.held = Held(@, command_state, handlers')]
       /\ UNCHANGED <<app, command_state, last_changed, data_queue>>
       /\ HandlerVarsUnchanged

\* ------------------------------------------- toggle_sensor_cmd, by steps
GuiVarsUnchanged ==
    UNCHANGED <<app, now, handlers>>

\* current = command_state.get(key, False)
toggle_sensor_cmd_begin(sensor_num) ==
    /\ gui.pc = "idle"
    /\ gui' = [gui EXCEPT !.pc = "tog_write", !.sensor_num = sensor_num,
                          !.current = command_state[SensorKey(sensor_num)]]
    /\ UNCHANGED <<app, command_state, last_changed, data_queue, last_alert_time, last_alert_state, sms,
                   file, temps_c, sensors_enabled, third_box_on, last_recv_time,
                   history_1, history_2, display_units, labels, next_tick, obs>>
    /\ GuiVarsUnchanged

\* command_state[key] = not current
toggle_sensor_cmd_write ==
    /\ gui.pc = "tog_write"
    /\ command_state' = [command_state EXCEPT ![SensorKey(gui.sensor_num)] = ~gui.current]
    /\ gui' = [gui EXCEPT !.pc = "tog_stamp"]
    /\ obs' = [obs EXCEPT !.toggled[gui.sensor_num] = ~gui.current,
                          !.held = Held(@, command_state', handlers)]
    /\ UNCHANGED <<app, last_changed, data_queue, last_alert_time, last_alert_state, sms,
                   file, temps_c, sensors_enabled, third_box_on, last_recv_time,
                   history_1, history_2, display_units, labels, next_tick>>
    /\ GuiVarsUnchanged

\* last_changed[key] = time.time()
toggle_sensor_cmd_stamp ==
    /\ gui.pc = "tog_stamp"
    /\ last_changed' = [last_changed EXCEPT ![SensorKey(gui.sensor_num)] = now]
    /\ gui' = GuiIdle
    /\ UNCHANGED <<app, command_state, data_queue, last_alert_time, last_alert_state, sms,
                   file, temps_c, sensors_enabled, third_box_on, last_recv_time,
                   history_1, history_2, display_units, labels, next_tick, obs>>
    /\ GuiVarsUnchanged

\* --------------------------------------------- periodic_update, by steps
\* float(t) of a message field, None when t is None or float() raises
ParseTemp(t) == IF t.k \in {"none", "str"} THEN None ELSE t

\* a variant of HistoryEntry: the desired state is not consulted
HistoryEntryUngated(enabled, temp) == IF ~IsNone(temp) THEN temp ELSE NaN

\* the entry appended for a sensor by a tick that drained a message
HistoryEntry(enabled, temp) == IF enabled /\ ~IsNone(temp) THEN temp ELSE NaN

\* a variant of NoMessageEntry: the last known reading is repeated
NoMessageEntryStale(enabled, temp) == IF enabled /\ ~IsNone(temp) THEN temp ELSE NaN

\* the entry appended for a sensor by a tick that drained no message
NoMessageEntry(enabled, temp) == NaN

\* the label of sensor s while third_box_on
SensorLabel(desired, temp) ==
    IF ~desired THEN "OFF"
    ELSE IF IsNone(temp) THEN "no data available" ELSE "value"

\* a variant of DrainTake: the first message taken is kept
DrainTakeFirst(latest_msg, got_message, msg) == IF got_message THEN latest_msg ELSE msg

\* latest_msg = msg, in the drain loop
DrainTake(latest_msg, got_message, msg) == msg

\* msg = data_queue.get_nowait() returns a message; the first call of a
\* tick is made when Tk runs the callback, UPDATE_INTERVAL_MS or more after
\* the previous tick asked for it. obs.tick.drained lists every message the
\* tick has removed when keep is TRUE, and the latest one only otherwise.
periodic_update_take(keep) ==
    /\ gui.pc \in {"idle", "drain"}
    /\ gui.pc = "idle" => now >= next_tick
    /\ data_queue # <<>>
    /\ data_queue' = Tail(data_queue)
    /\ gui' = [gui EXCEPT !.pc = "drain", !.got_message = TRUE,
                          !.latest_msg = DrainTake(gui.latest_msg, gui.got_message,
                                                   Head(data_queue))]
    /\ obs' = [obs EXCEPT !.tick =
                 IF gui.pc = "idle"
                 THEN [queue_at_begin |-> data_queue, drained |-> <<Head(data_queue)>>,
                       hist_before |-> <<history_1, history_2>>]
                 ELSE [obs.tick EXCEPT !.drained =
                         IF keep THEN Append(@, Head(data_queue))
                         ELSE <<Head(data_queue)>>]]
    /\ UNCHANGED <<app, command_state, last_changed, last_alert_time, last_alert_state, sms,
                   file, temps_c, sensors_enabled, third_box_on, last_recv_time,
                   history_1, history_2, display_units, labels, next_tick>>
    /\ GuiVarsUnchanged

periodic_update_get == periodic_update_take(TRUE)

\* get_nowait() raises queue.Empty after at least one message was taken
periodic_update_drained ==
    /\ gui.pc = "drain"
    /\ data_queue = <<>>
    /\ gui' = [gui EXCEPT !.pc = "read1"]
    /\ UNCHANGED <<app, command_state, last_changed, data_queue, last_alert_time, last_alert_state, sms,
                   file, temps_c, sensors_enabled, third_box_on, last_recv_time,
                   history_1, history_2, display_units, labels, next_tick, obs>>
    /\ GuiVarsUnchanged

\* the first get_nowait() raises queue.Empty: the branch "No message this
\* second"
periodic_update_no_message ==
    /\ gui.pc = "idle"
    /\ now >= next_tick
    /\ data_queue = <<>>
    /\ third_box_on' = IF now - last_recv_time > THIRD_BOX_TIMEOUT_S
                       THEN FALSE ELSE third_box_on
    /\ history_1' = DequeAppend(history_1, NoMessageEntry(sensors_enabled[1], temps_c[1]))
    /\ history_2' = DequeAppend(history_2, NoMessageEntry(sensors_enabled[2], temps_c[2]))
    /\ gui' = [gui EXCEPT !.pc = "label1"]
    /\ obs' = [obs EXCEPT !.tick = [queue_at_begin |-> <<>>, drained |-> <<>>,
                                   hist_before |-> <<history_1, history_2>>]]
    /\ UNCHANGED <<app, command_state, last_changed, data_queue, last_alert_time, last_alert_state, sms,
                   file, temps_c, sensors_enabled, last_recv_time,
                   display_units, labels, next_tick>>
    /\ GuiVarsUnchanged

\* self.last_recv_time = latest_msg[...]; desired1 = command_state.get("sensor1")
periodic_update_read1 ==
    /\ gui.pc = "read1"
    /\ last_recv_time' = gui.latest_msg.server_recv_time
    /\ gui' = [gui EXCEPT !.pc = "read2", !.desired1 = command_state["sensor1"]]
    /\ UNCHANGED <<app, command_state, last_changed, data_queue, last_alert_time, last_alert_state, sms,
                   file, temps_c, sensors_enabled, third_box_on,
                   history_1, history_2, display_units, labels, next_tick, obs>>
    /\ GuiVarsUnchanged

\* desired2 = command_state.get("sensor2"), then everything up to the two
\* history appends: temps_c, sensors_enabled, third_box_on, check_alerts
periodic_update_read2 ==
    LET desired2 == command_state["sensor2"]
        t1 == ParseTemp(gui.latest_msg.temp1)
        t2 == ParseTemp(gui.latest_msg.temp2)
        st0 == [lat |-> last_alert_time, sms |-> sms]
        st1 == IF gui.desired1 /\ ~IsNone(t1)
               THEN check_alerts(st0, "sensor1", t1, now) ELSE st0
        st2 == IF desired2 /\ ~IsNone(t2)
               THEN check_alerts(st1, "sensor2", t2, now) ELSE st1
    IN /\ gui.pc = "read2"
       /\ temps_c' = [s \in Sensors |-> IF s = 1 THEN t1 ELSE t2]
       /\ sensors_enabled' = [s \in Sensors |-> IF s = 1 THEN gui.desired1 ELSE desired2]
       /\ third_box_on' = TRUE
       /\ last_alert_time' = st2.lat
       /\ UNCHANGED last_alert_state
       /\ sms' = st2.sms
       /\ history_1' = DequeAppend(history_1, HistoryEntry(gui.desired1, t1))
       /\ history_2' = DequeAppend(history_2, HistoryEntry(desired2, t2))
       /\ gui' = [gui EXCEPT !.pc = "label1", !.desired2 = desired2]
       /\ UNCHANGED <<app, command_state, last_changed, data_queue, file,
                      last_recv_time, display_units, labels, next_tick, obs>>
       /\ GuiVarsUnchanged

\* the end of a tick: redraw_graph, root.after and save_history
FinishTick(outcome) ==
    /\ next_tick' = now + UPDATE_INTERVAL_MS
    /\ file' = save_history(history_1, history_2, outcome, file)
    /\ gui' = GuiIdle
    /\ obs' = [obs EXCEPT !.tick = ObsNoTick,
                          !.redraw = RedrawInTick,
                          !.drawn = [s \in Sensors |->
                                       GraphSeries(IF s = 1 THEN history_1 ELSE history_2,
                                                   display_units)]]

\* the labels: "No data available" for both when the third box is off (and
\* the tick ends), else the label of sensor 1 from command_state
periodic_update_label1(outcome) ==
    /\ gui.pc = "label1"
    /\ IF ~third_box_on
       THEN /\ labels' = [s \in Sensors |-> "No data available"]
            /\ FinishTick(outcome)
       ELSE /\ labels' = [labels EXCEPT ![1] = SensorLabel(command_state["sensor1"], temps_c[1])]
            /\ gui' = [gui EXCEPT !.pc = "label2"]
            /\ UNCHANGED <<app, next_tick, file, obs>>
    /\ UNCHANGED <<app, command_state, last_changed, data_queue, last_alert_time, last_alert_state, sms,
                   temps_c, sensors_enabled, third_box_on, last_recv_time,
                   history_1, history_2, display_units>>
    /\ GuiVarsUnchanged

\* the label of sensor 2 from command_state, and the tick ends
periodic_update_label2(outcome) ==
    /\ gui.pc = "label2"
    /\ labels' = [labels EXCEPT ![2] = SensorLabel(command_state["sensor2"], temps_c[2])]
    /\ FinishTick(outcome)
    /\ UNCHANGED <<app, command_state, last_changed, data_queue, last_alert_time, last_alert_state, sms,
                   temps_c, sensors_enabled, third_box_on, last_recv_time,
                   history_1, history_2, display_units>>
    /\ GuiVarsUnchanged


\* ------------------------------------------------ the operations as wholes
\* if "sensor<s>" in data and the cooldown is over: command_state[...] = ...
AfterReport(cs, data, s, t) ==
    LET has == IF s = 1 THEN data.has1 ELSE data.has2
        val == IF s = 1 THEN data.sensor1 ELSE data.sensor2
    IN IF has /\ CooldownOver(SensorKey(s), t)
       THEN [cs EXCEPT ![SensorKey(s)] = val]
       ELSE cs

\* The body of a POST /data as the handler meets it. kind: "notjson"
\* (request.json raises), "nonobject" (JSON that is true and no object, so
\* data.get raises AttributeError) or "object" (data holds its fields; JSON
\* that is false reads as {}). printable is FALSE when a field holds text
\* that sys.stdout cannot encode, a lone surrogate for one: the print of
\* the received fields then raises UnicodeEncodeError.
Request(kind, data, printable) == [kind |-> kind, data |-> data, printable |-> printable]
ObjectRequest(data) == Request("object", data, TRUE)

\* jsonify({"status": "error", "message": str(e)}), 400
ErrorResp == [status |-> "error", sensor1 |-> FALSE, sensor2 |-> FALSE, display_on |-> FALSE]

\* a variant of ResponseState: the response is built from command_state as
\* the request found it
ResponseStateOnEntry(before, after) == before

\* the command_state the response is built from: resp reads command_state
\* after the reports were applied and the message was put
ResponseState(before, after) == after

\* receive_data, run by thread h from its first line to its return, which
\* is the success response or, from the except clause, the error response
receive_data_request(h, req, limit) ==
    LET data == req.data
        parsed == req.kind = "object"
        cs == IF parsed
              THEN AfterReport(AfterReport(command_state, data, 1, now), data, 2, now)
              ELSE command_state
        ok == parsed /\ req.printable
        rs == ResponseState(command_state, cs)
    IN /\ handlers[h].pc = "idle"
       /\ ok => Len(data_queue) + InFlight < limit
       /\ command_state' = cs
       /\ data_queue' = IF ok THEN Append(data_queue, Message(data, now)) ELSE data_queue
       /\ handlers' = [handlers EXCEPT ![h].resp =
              IF ok
              THEN [status |-> "success", sensor1 |-> rs["sensor1"],
                    sensor2 |-> rs["sensor2"], display_on |-> rs["display_on"]]
              ELSE ErrorResp]
       /\ obs' = [obs EXCEPT !.reported = IF ok THEN Reported(data) ELSE @]
       /\ UNCHANGED last_changed
       /\ HandlerVarsUnchanged

\* receive_data for a request that is a JSON object and can be printed
receive_data(h, data, limit) == receive_data_request(h, ObjectRequest(data), limit)

\* toggle_units: the display unit changes, nothing is redrawn
ToggleCounted == [obs EXCEPT !.redraw.pending = IF @ >= 3 THEN 3 ELSE @ + 1]

\* a variant of toggle_units: the stored readings are converted to the new
\* unit (to Fahrenheit in fifths of a degree, and back to whole degrees)
toggle_units_converting ==
    LET to_f == display_units = "C"
        conv(v) == IF to_f /\ v.k = "num" THEN c_to_f(v)
                   ELSE IF ~to_f /\ v.k = "fifths" THEN Num((v.v - 160) \div 9)
                   ELSE v
    IN /\ gui.pc = "idle"
       /\ display_units' = IF to_f THEN "F" ELSE "C"
       /\ history_1' = [i \in 1..Len(history_1) |-> conv(history_1[i])]
       /\ history_2' = [i \in 1..Len(history_2) |-> conv(history_2[i])]
       /\ obs' = ToggleCounted
       /\ UNCHANGED <<app, now, command_state, last_changed, data_queue,
                      last_alert_time, last_alert_state, sms, file, temps_c,
                      sensors_enabled, third_box_on, last_recv_time, labels,
                      next_tick, gui, handlers>>

toggle_units ==
    /\ gui.pc = "idle"
    /\ display_units' = IF display_units = "C" THEN "F" ELSE "C"
    /\ obs' = ToggleCounted
    /\ UNCHANGED <<app, command_state, last_changed, data_queue, last_alert_time, last_alert_state,
                   sms, file, temps_c, sensors_enabled, third_box_on, last_recv_time,
                   history_1, history_2, labels, next_tick, gui>>
    /\ GuiVarsUnchanged

\* redraw_graph called on its own, outside periodic_update
redraw_graph ==
    /\ gui.pc = "idle"
    /\ obs' = [obs EXCEPT !.drawn = [s \in Sensors |->
                                       GraphSeries(IF s = 1 THEN history_1 ELSE history_2,
                                                   display_units)],
                          !.redraw = [standalone |-> TRUE, previous |-> obs.drawn,
                                      toggles |-> obs.redraw.pending, pending |-> 0]]
    /\ UNCHANGED <<app, now, command_state, last_changed, data_queue,
                   last_alert_time, last_alert_state, sms, file, temps_c,
                   sensors_enabled, third_box_on, last_recv_time, history_1,
                   history_2, display_units, labels, next_tick, gui, handlers>>

\* a variant of toggle_sensor_cmd: the time is stamped for both sensors
toggle_sensor_cmd_stamping_both(sensor_num) ==
    LET key == SensorKey(sensor_num)
    IN /\ gui.pc = "idle"
       /\ command_state' = [command_state EXCEPT ![key] = ~command_state[key]]
       /\ last_changed' = [k \in CommandKeys |->
                             IF k = "display_on" THEN last_changed[k] ELSE now]
       /\ obs' = [obs EXCEPT !.toggled[sensor_num] = ~command_state[key]]
       /\ UNCHANGED <<app, data_queue, last_alert_time, last_alert_state, sms, file, temps_c,
                      sensors_enabled, third_box_on, last_recv_time, history_1,
                      history_2, display_units, labels, next_tick, gui>>
       /\ GuiVarsUnchanged

\* toggle_sensor_cmd(sensor_num), run from its first line to its return
toggle_sensor_cmd(sensor_num) ==
    LET key == SensorKey(sensor_num)
    IN /\ gui.pc = "idle"
       /\ command_state' = [command_state EXCEPT ![key] = ~command_state[key]]
       /\ last_changed' = [last_changed EXCEPT ![key] = now]
       /\ obs' = [obs EXCEPT !.toggled[sensor_num] = ~command_state[key]]
       /\ UNCHANGED <<app, data_queue, last_alert_time, last_alert_state, sms, file, temps_c,
                      sensors_enabled, third_box_on, last_recv_time, history_1,
                      history_2, display_units, labels, next_tick, gui>>
       /\ GuiVarsUnchanged

\* the drain loop of periodic_update run on queue q with nothing in between:
\* every message is taken in turn
RECURSIVE DrainLatest(_, _, _)
DrainLatest(q, latest_msg, got_message) ==
    IF q = <<>> THEN latest_msg
    ELSE DrainLatest(Tail(q), DrainTake(latest_msg, got_message, Head(q)), TRUE)

\* a variant of SendEscapes: _send without its try/except
SendEscapesUncaught(send) == send = "raises"

\* _send: does the exception of client.messages.create leave _send? The
\* call sits in try/except Exception, so it never does.
SendEscapes(send) == FALSE

\* a variant of CheckAlertsInvoked: every drained message has both sensors
\* checked
CheckAlertsInvokedAlways(got_message, enabled, temp) == got_message

\* periodic_update calls check_alerts for a sensor: in the branch of a
\* drained message, "if self.sensors_enabled[s] and (self.temps_c[s] is not
\* None)"
CheckAlertsInvoked(got_message, enabled, temp) == got_message /\ enabled /\ ~IsNone(temp)

\* periodic_update, run from its first line to its return, or to the
\* exception that ends it (raised: an exception left check_alerts). send is
\* what client.messages.create does when called, outcome what save_history
\* meets.
periodic_update_run(send, outcome) ==
    LET got_message == data_queue # <<>>
        latest_msg == DrainLatest(data_queue, NoMsg, FALSE)
        desired1 == command_state["sensor1"]
        desired2 == command_state["sensor2"]
        t1 == IF got_message THEN ParseTemp(latest_msg.temp1) ELSE temps_c[1]
        t2 == IF got_message THEN ParseTemp(latest_msg.temp2) ELSE temps_c[2]
        st0 == [lat |-> last_alert_time, sms |-> sms]
        c1 == IF CheckAlertsInvoked(got_message, desired1, t1)
              THEN check_alerts(st0, "sensor1", t1, now) ELSE st0
        called1 == c1.sms # st0.sms
        raised1 == called1 /\ SendEscapes(send)
        st1 == IF raised1 THEN [st0 EXCEPT !.sms = c1.sms] ELSE c1
        c2 == IF ~raised1 /\ CheckAlertsInvoked(got_message, desired2, t2)
              THEN check_alerts(st1, "sensor2", t2, now) ELSE st1
        called2 == c2.sms # st1.sms
        raised2 == called2 /\ SendEscapes(send)
        st2 == IF raised2 THEN [st1 EXCEPT !.sms = c2.sms] ELSE c2
        raised == raised1 \/ raised2
        box == IF got_message THEN TRUE
               ELSE IF now - last_recv_time > THIRD_BOX_TIMEOUT_S THEN FALSE
               ELSE third_box_on
        h1 == DequeAppend(history_1,
                  IF got_message THEN HistoryEntry(desired1, t1)
                  ELSE NoMessageEntry(sensors_enabled[1], temps_c[1]))
        h2 == DequeAppend(history_2,
                  IF got_message THEN HistoryEntry(desired2, t2)
                  ELSE NoMessageEntry(sensors_enabled[2], temps_c[2]))
    IN /\ gui.pc = "idle"
       /\ next_tick # NoTick
       /\ now >= next_tick
       /\ data_queue' = <<>>
       /\ last_recv_time' = IF got_message THEN latest_msg.server_recv_time
                            ELSE last_recv_time
       /\ temps_c' = [s \in Sensors |-> IF s = 1 THEN t1 ELSE t2]
       /\ sensors_enabled' = IF got_message
                             THEN [s \in Sensors |-> IF s = 1 THEN desired1 ELSE desired2]
                             ELSE sensors_enabled
       /\ third_box_on' = box
       /\ last_alert_time' = st2.lat
       /\ UNCHANGED last_alert_state
       /\ sms' = st2.sms
       /\ history_1' = IF raised THEN history_1 ELSE h1
       /\ history_2' = IF raised THEN history_2 ELSE h2
       /\ labels' = IF raised THEN labels
                    ELSE IF ~box
                    THEN [s \in Sensors |-> "No data available"]
                    ELSE [s \in Sensors |->
                            SensorLabel(command_state[SensorKey(s)],
                                        IF s = 1 THEN t1 ELSE t2)]
       /\ next_tick' = IF raised THEN NoTick ELSE now + UPDATE_INTERVAL_MS
       /\ file' = IF raised THEN file ELSE save_history(h1, h2, outcome, file)
       /\ obs' = [obs EXCEPT !.failed =
                    [send |-> send = "raises" /\ (called1 \/ called2),
                     save |-> ~raised /\ outcome # "ok",
                     nonnumeric |-> got_message /\ "str" \in {latest_msg.temp1.k,
                                                              latest_msg.temp2.k}],
                  !.redraw = IF raised THEN @ ELSE RedrawInTick,
                  !.drawn = IF raised THEN @
                            ELSE [s \in Sensors |->
                                    GraphSeries(IF s = 1 THEN h1 ELSE h2, display_units)]]
       /\ UNCHANGED <<app, command_state, last_changed, display_units, gui>>
       /\ GuiVarsUnchanged

\* periodic_update when every notification call returns
periodic_update(outcome) == periodic_update_run("ok", outcome)

\* periodic_update with a notification call that takes time, in two steps.
\* The first call of client.messages.create the tick makes is the one that
\* takes time; _send makes it on the Tk thread and returns when the call has
\* returned or raised.
\* Step 1: the tick runs from its first line into that call: the queue is
\* drained, last_recv_time, temps_c, sensors_enabled and third_box_on are
\* set, check_alerts has read time.time() (gui.alert_now) and called _send.
periodic_update_send_begin ==
    LET latest_msg == DrainLatest(data_queue, NoMsg, FALSE)
        desired1 == command_state["sensor1"]
        desired2 == command_state["sensor2"]
        t1 == ParseTemp(latest_msg.temp1)
        t2 == ParseTemp(latest_msg.temp2)
        st0 == [lat |-> last_alert_time, sms |-> sms]
        c1 == IF CheckAlertsInvoked(TRUE, desired1, t1)
              THEN check_alerts(st0, "sensor1", t1, now) ELSE st0
        c2 == IF CheckAlertsInvoked(TRUE, desired2, t2)
              THEN check_alerts(c1, "sensor2", t2, now) ELSE c1
    IN /\ gui.pc = "idle"
       /\ next_tick # NoTick
       /\ now >= next_tick
       /\ data_queue # <<>>
       /\ c2.sms # sms
       /\ data_queue' = <<>>
       /\ last_recv_time' = latest_msg.server_recv_time
       /\ temps_c' = [s \in Sensors |-> IF s = 1 THEN t1 ELSE t2]
       /\ sensors_enabled' = [s \in Sensors |-> IF s = 1 THEN desired1 ELSE desired2]
       /\ third_box_on' = TRUE
       /\ gui' = [gui EXCEPT !.pc = "send", !.alert_now = now]
       /\ UNCHANGED <<app, now, command_state, last_changed, last_alert_time,
                      last_alert_state, sms, file, history_1, history_2,
                      display_units, labels, next_tick, handlers, obs>>

\* Step 2: the call returns or raises (send), _send returns, and the tick
\* runs on to its end: last_alert_time is stamped with the time check_alerts
\* read before the call, the other sensor is checked, the histories get
\* their entries, the labels are set, the next tick is asked for and the
\* file is written.
periodic_update_send_return(send) ==
    LET st0 == [lat |-> last_alert_time, sms |-> sms]
        c1 == IF CheckAlertsInvoked(TRUE, sensors_enabled[1], temps_c[1])
              THEN check_alerts(st0, "sensor1", temps_c[1], gui.alert_now) ELSE st0
        c2 == IF CheckAlertsInvoked(TRUE, sensors_enabled[2], temps_c[2])
              THEN check_alerts(c1, "sensor2", temps_c[2],
                                IF c1.sms # sms THEN now ELSE gui.alert_now)
              ELSE c1
        h1 == DequeAppend(history_1, HistoryEntry(sensors_enabled[1], temps_c[1]))
        h2 == DequeAppend(history_2, HistoryEntry(sensors_enabled[2], temps_c[2]))
    IN /\ gui.pc = "send"
       /\ last_alert_time' = c2.lat
       /\ sms' = c2.sms
       /\ history_1' = h1
       /\ history_2' = h2
       /\ labels' = [s \in Sensors |->
                       SensorLabel(command_state[SensorKey(s)], temps_c[s])]
       /\ next_tick' = now + UPDATE_INTERVAL_MS
       /\ file' = save_history(h1, h2, "ok", file)
       /\ gui' = GuiIdle
       /\ obs' = [obs EXCEPT !.failed = [send |-> send = "raises", save |-> FALSE,
                                         nonnumeric |-> FALSE],
                             !.redraw = RedrawInTick,
                             !.drawn = [s \in Sensors |->
                                          GraphSeries(IF s = 1 THEN h1 ELSE h2,
                                                      display_units)]]
       /\ UNCHANGED <<app, now, command_state, last_changed, data_queue,
                      last_alert_state, temps_c, sensors_enabled, third_box_on,
                      last_recv_time, display_units, handlers>>

\* --------------------------------------------------------- smartguireal.py
\* smartguireal.py has the same module globals, receive_data, save_history,
\* load_history and toggle_sensor_cmd as SmartThermometerProgram.py; its
\* __init__ and its periodic_update differ.

\* __init__ of smartguireal.py: the loaded lists are cut, never padded
InitialHistoriesReal(f) ==
    LET loaded == load_history(f)
    IN IF InitRaises(f) THEN <<(<<>>), (<<>>)>>
       ELSE IF Truthy(loaded[1]) /\ Truthy(loaded[2])
       THEN <<LastN(Sanitize(loaded[1].items), MAX_HISTORY_SEC),
              LastN(Sanitize(loaded[2].items), MAX_HISTORY_SEC)>>
       ELSE <<NaNs(MAX_HISTORY_SEC), NaNs(MAX_HISTORY_SEC)>>

\* Module globals of smartguireal.py at import, then its
\* SmartThermometerGUI.__init__ with the file f on disk at time t.
StartupReal(f, t) ==
    /\ now = t
    /\ command_state = [k \in CommandKeys |-> k = "display_on"]
    /\ last_changed = [k \in CommandKeys |-> 0]
    /\ data_queue = <<>>
    /\ last_alert_time = [k \in AlertKeys |-> 0]
    /\ last_alert_state = [s \in Sensors |-> "None"]
    /\ sms = <<>>
    /\ file = f
    /\ temps_c = [s \in Sensors |-> Num(22)]
    /\ sensors_enabled = [s \in Sensors |-> FALSE]
    /\ third_box_on = FALSE
    /\ last_recv_time = 0
    /\ history_1 = InitialHistoriesReal(f)[1]
    /\ history_2 = InitialHistoriesReal(f)[2]
    /\ display_units = "C"
    /\ labels = [s \in Sensors |-> "---"]
    /\ next_tick = IF InitRaises(f) THEN NoTick ELSE t + UPDATE_INTERVAL_MS
    /\ gui = IF InitRaises(f) THEN GuiRaised ELSE GuiIdle
    /\ handlers = [h \in Handlers |-> HandlerIdle]
    /\ app = AppInit
    /\ obs = ObsInit

\* what twilioreal._send_to_all can do: return, or let the exception of
\* client.messages.create through
SendOutcomes == {"ok", "raises"}

\* float(t) raises for a value that is no number
FloatRaises(t) == ~IsNone(t) /\ ~IsNumber(t)

\* a variant of Rearm: last_alert_state is left as it is
RearmNever(state) == state

\* last_alert_state[sensor_id] = None, in the branch LOW_C <= temp_c <= HIGH_C
Rearm(state) == "None"

\* a variant of HighFires: last_alert_state is not consulted
HighFiresAlways(state) == TRUE

\* last_alert_state[sensor_id] != "high"
HighFires(state) == state # "high"

\* a variant of LowFires: a low notification needs last_alert_state at None
LowFiresFromNone(state) == state = "None"

\* last_alert_state[sensor_id] != "low"
LowFires(state) == state # "low"

\* The body of "for sensor_id in [1, 2]" in the alert logic of
\* periodic_update, at time t. st = [las, sms, raised]: last_alert_state,
\* the calls made to twilioreal and whether one of them has raised, which
\* ends the tick at that call.
AlertLogic(st, sensor_id, enabled, temp_c, t, send) ==
    LET key(kind) == AlertKey(SensorKey(sensor_id), kind)
        call(kind) ==
            IF send = "ok"
            THEN [las |-> [st.las EXCEPT ![sensor_id] = kind],
                  sms |-> Append(st.sms, [key |-> key(kind), at |-> t]),
                  raised |-> FALSE]
            ELSE [st EXCEPT !.sms = Append(@, [key |-> key(kind), at |-> t]),
                            !.raised = TRUE]
    IN IF st.raised \/ ~enabled \/ temp_c.k # "num" THEN st
       ELSE IF temp_c.v > HIGH_C /\ HighFires(st.las[sensor_id]) THEN call("high")
       ELSE IF temp_c.v < LOW_C /\ LowFires(st.las[sensor_id]) THEN call("low")
       ELSE IF LOW_C <= temp_c.v /\ temp_c.v <= HIGH_C
            THEN [st EXCEPT !.las[sensor_id] = Rearm(@)]
       ELSE st

\* the readings of the edge-trigger example
ExampleReadings == <<30, 33, 34, 33, 20, 33>>

\* obs.example after a tick: pos counts the readings of sensor 1 used so
\* far while they are ExampleReadings in order (NoTick once they are not),
\* fired lists the positions, counted from 0, of the readings at which a
\* high notification for sensor 1 was sent
ExampleAfter(ex, got_reading, temp_c, sent_high) ==
    LET pos == IF ~got_reading \/ ex.pos = NoTick THEN ex.pos
               ELSE IF ex.pos < Len(ExampleReadings)
                       /\ temp_c = Num(ExampleReadings[ex.pos + 1])
                    THEN ex.pos + 1
               ELSE NoTick
    IN [pos |-> pos,
        fired |-> IF sent_high /\ pos # NoTick THEN Append(ex.fired, pos - 1)
                  ELSE ex.fired]

\* obs.high_run of sensor s after a tick that evaluated the alert logic
\* with enabled and temp_c for it and made the notification calls sent
HighRunAfter(run, s, enabled, temp_c, sent) ==
    LET called(kind) == \E i \in 1..Len(sent) :
                            sent[i].key = AlertKey(SensorKey(s), kind)
    IN IF called("high") THEN TRUE
       ELSE IF called("low") THEN FALSE
       ELSE IF enabled /\ temp_c.k = "num"
               /\ LOW_C <= temp_c.v /\ temp_c.v <= HIGH_C THEN FALSE
       ELSE run

\* periodic_update of smartguireal.py, run from its first line to its
\* return or to the exception that ends it
periodic_update_real(send, outcome) ==
    LET got_message == data_queue # <<>>
        latest_msg == DrainLatest(data_queue, NoMsg, FALSE)
        t1 == latest_msg.temp1
        t2 == latest_msg.temp2
        raise1 == got_message /\ FloatRaises(t1)
        raise2 == got_message /\ ~raise1 /\ FloatRaises(t2)
        set1 == got_message /\ ~raise1
        set2 == got_message /\ ~raise1 /\ ~raise2
        temps == [s \in Sensors |->
                    IF s = 1 THEN (IF set1 /\ ~IsNone(t1) THEN t1 ELSE temps_c[1])
                    ELSE (IF set2 /\ ~IsNone(t2) THEN t2 ELSE temps_c[2])]
        enabled == [s \in Sensors |->
                      IF s = 1 THEN (IF set1 THEN ~IsNone(t1) ELSE sensors_enabled[1])
                      ELSE (IF set2 THEN ~IsNone(t2) ELSE sensors_enabled[2])]
        parsed == ~raise1 /\ ~raise2
        st0 == [las |-> last_alert_state, sms |-> sms, raised |-> FALSE]
        st1 == AlertLogic(st0, 1, enabled[1], temps[1], now, send)
        st2 == AlertLogic(st1, 2, enabled[2], temps[2], now, send)
        done == parsed /\ ~st2.raised
        box == IF got_message THEN TRUE
               ELSE IF now - last_recv_time > THIRD_BOX_TIMEOUT_S THEN FALSE
               ELSE third_box_on
        h1 == DequeAppend(history_1, IF got_message /\ enabled[1] THEN temps[1] ELSE NaN)
        h2 == DequeAppend(history_2, IF got_message /\ enabled[2] THEN temps[2] ELSE NaN)
    IN /\ gui.pc = "idle"
       /\ next_tick # NoTick
       /\ now >= next_tick
       /\ data_queue' = <<>>
       /\ last_recv_time' = IF got_message THEN latest_msg.server_recv_time
                            ELSE last_recv_time
       /\ temps_c' = temps
       /\ sensors_enabled' = enabled
       /\ third_box_on' = IF parsed THEN box ELSE third_box_on
       /\ history_1' = IF parsed THEN h1 ELSE history_1
       /\ history_2' = IF parsed THEN h2 ELSE history_2
       /\ last_alert_state' = IF parsed THEN st2.las ELSE last_alert_state
       /\ sms' = IF parsed THEN st2.sms ELSE sms
       /\ labels' = IF ~done THEN labels
                    ELSE IF ~box THEN [s \in Sensors |-> "No data available"]
                    ELSE [s \in Sensors |-> IF enabled[s] THEN "value" ELSE "OFF"]
       /\ next_tick' = IF done THEN now + UPDATE_INTERVAL_MS ELSE NoTick
       /\ file' = IF done THEN save_history(h1, h2, outcome, file) ELSE file
       /\ obs' = [obs EXCEPT !.example =
                    ExampleAfter(@, set1 /\ ~IsNone(t1), temps[1],
                                 parsed /\ Len(st1.sms) > Len(sms)
                                        /\ st1.sms[Len(st1.sms)].key = "sensor1_high"),
                              !.high_run =
                    IF parsed
                    THEN [s \in Sensors |->
                            HighRunAfter(@[s], s, enabled[s], temps[s],
                                         SubSeq(st2.sms, Len(sms) + 1, Len(st2.sms)))]
                    ELSE @]
       /\ UNCHANGED <<app, command_state, last_changed, last_alert_time,
                      display_units, gui>>
       /\ GuiVarsUnchanged

\* ---------------------------------------------------------- specifications
\* what a request may say of one sensor: nothing, true or false
FlagInputs == {<<FALSE, FALSE>>, <<TRUE, FALSE>>, <<TRUE, TRUE>>}
PayloadsOf(temps, flags) ==
    {[temp1 |-> a, temp2 |-> b, has1 |-> f1[1], sensor1 |-> f1[2],
      has2 |-> f2[1], sensor2 |-> f2[2]] :
        a \in temps, b \in temps, f1 \in flags, f2 \in flags}

\* Spec: the command path. Requests report the state of both sensors or of
\* neither (and no reading),
\* the user toggles, ticks drain the queue; every request and every Tk
\* callback runs from its first line to its return with nothing in between.
Init == Startup(FileAbsent, StartTime)

CommandPayloads == {d \in PayloadsOf({None}, FlagInputs) : d.has1 = d.has2}

Next ==
    \/ Advance(1, MaxTime)
    \/ \E data \in CommandPayloads : receive_data(1, data, MaxQueue)
    \/ \E s \in Sensors : toggle_sensor_cmd(s)
    \/ periodic_update("ok")

Spec == Init /\ [][Next]_vars

\* SpecHist: the history path. Requests carry readings and switch the
\* sensors, ticks append to the histories and save them; the process starts
\* from any of InitialFiles.
InitHist == \E f \in InitialFiles : Startup(f, StartTime)

ReadingPayloads == PayloadsOf({None, Num(25)}, {<<TRUE, FALSE>>, <<TRUE, TRUE>>})

NextHist ==
    \/ Advance(UPDATE_INTERVAL_MS, MaxTimeHist)
    \/ \E data \in ReadingPayloads : receive_data(1, data, MaxQueue)
    \/ periodic_update("ok")

SpecHist == InitHist /\ [][NextHist]_vars

\* SpecGate: the gating path. The user toggles the sensors, requests carry
\* the same reading, or none, for both sensors and may report both off,
\* ticks append to the histories.
GatePayloads ==
    {d \in PayloadsOf({None, Num(25)}, {<<FALSE, FALSE>>, <<TRUE, FALSE>>}) :
        d.temp1 = d.temp2 /\ d.has1 = d.has2}

NextGate ==
    \/ Advance(UPDATE_INTERVAL_MS, MaxTimeGate)
    \/ \E data \in GatePayloads : receive_data(1, data, MaxQueue)
    \/ \E s \in Sensors : toggle_sensor_cmd(s)
    \/ periodic_update("ok")

SpecGate == Init /\ [][NextGate]_vars

\* The operations by steps, for the specifications that interleave threads.
receive_data_step(h, payloads, limit) ==
    \/ \E data \in payloads : receive_data_begin(h, data, limit)
    \/ \E s \in Sensors : receive_data_check(h, s)
    \/ \E s \in Sensors : receive_data_set(h, s)
    \/ receive_data_stamp(h)
    \/ receive_data_put(h)
    \/ \E k \in CommandKeys : receive_data_respond(h, k)

toggle_sensor_cmd_step ==
    \/ \E s \in Sensors : toggle_sensor_cmd_begin(s)
    \/ toggle_sensor_cmd_write
    \/ toggle_sensor_cmd_stamp

periodic_update_step ==
    \/ periodic_update_get
    \/ periodic_update_drained
    \/ periodic_update_no_message
    \/ periodic_update_read1
    \/ periodic_update_read2
    \/ periodic_update_label1("ok")
    \/ periodic_update_label2("ok")

\* SpecConc: a request thread interleaves step by step with the toggles of
\* the Tk main thread, and time passes at any point; the ticks of the main
\* thread run between them (a Tk callback never interleaves with another).
NextConc ==
    \/ Advance(1, MaxTimeConc)
    \/ receive_data_step(1, CommandPayloads, MaxQueue)
    \/ toggle_sensor_cmd_step
    \/ periodic_update("ok")

SpecConc == Init /\ [][NextConc]_vars

\* SpecDrain: a request thread interleaves step by step with the steps of
\* periodic_update; requests carry readings and report both sensors on.
DrainPayloads == PayloadsOf({None, Num(25)}, {<<TRUE, TRUE>>})

NextDrain ==
    \/ Advance(UPDATE_INTERVAL_MS, MaxTimeDrain)
    \/ receive_data_step(1, DrainPayloads, MaxQueueDrain)
    \/ periodic_update_step

SpecDrain == Init /\ [][NextDrain]_vars

\* FairSpecLoop: a request thread interleaves step by step with the steps
\* of periodic_update, and a new request may arrive whenever the queue has
\* room, however many messages the running tick has removed already. The Tk
\* thread keeps running: a step of the tick that stays possible is taken,
\* and the loop is left if the queue is found empty again and again. The
\* clock is capped at MaxTimeLoop; what happens at that reading stands for
\* what happens from then on.
LoopPayloads == PayloadsOf({Num(25)}, {<<TRUE, TRUE>>})

periodic_update_loop ==
    \/ periodic_update_take(FALSE)
    \/ periodic_update_drained
    \/ periodic_update_no_message
    \/ periodic_update_read1
    \/ periodic_update_read2
    \/ periodic_update_label1("ok")
    \/ periodic_update_label2("ok")

NextLoop ==
    \/ Advance(UPDATE_INTERVAL_MS, MaxTimeLoop)
    \/ receive_data_step(1, LoopPayloads, MaxQueueLoop)
    \/ periodic_update_loop

SpecLoop == Init /\ [][NextLoop]_vars

FairSpecLoop ==
    SpecLoop /\ WF_vars(periodic_update_loop) /\ SF_vars(periodic_update_drained)

\* SpecStamp: two request threads interleave step by step, time passes at
\* any point, and the ticks of the Tk thread run between their steps.
NextStamp ==
    \/ Advance(1, MaxTimeStamp)
    \/ \E h \in Handlers : receive_data_step(h, LoopPayloads, MaxQueueDrain)
    \/ periodic_update("ok")

SpecStamp == Init /\ [][NextStamp]_vars

\* SpecLabel: a request thread interleaves step by step with the steps of
\* periodic_update; requests carry a reading of both sensors and report
\* each sensor on or off.
LabelPayloads == PayloadsOf({Num(25)}, {<<TRUE, TRUE>>, <<TRUE, FALSE>>})

NextLabel ==
    \/ Advance(UPDATE_INTERVAL_MS, MaxTimeLabel)
    \/ receive_data_step(1, LabelPayloads, MaxQueueDrain)
    \/ periodic_update_step

SpecLabel == Init /\ [][NextLabel]_vars

\* SpecReal: smartguireal.py. Requests carry readings of both sensors around
\* the thresholds LOW_C and HIGH_C and report no sensor state: any readings
\* during the first MaxTimeFree half-seconds, and at any time the next
\* reading of ExampleReadings for sensor 1. Every request and every tick
\* runs from its first line to its return; the notification calls return
\* and the file is written.
InitReal == StartupReal(FileAbsent, StartTime)

ReadingsOnly(a, b) ==
    [temp1 |-> a, temp2 |-> b, has1 |-> FALSE, sensor1 |-> FALSE,
     has2 |-> FALSE, sensor2 |-> FALSE]

RealPayloads ==
    {ReadingsOnly(a, b) :
        a \in {None, Num(LOW_C - 1), Num(LOW_C), Num(HIGH_C), Num(HIGH_C + 1)},
        b \in {None, Num(HIGH_C + 1)}}

ExamplePayloads ==
    IF data_queue = <<>> /\ obs.example.pos \in 0..(Len(ExampleReadings) - 1)
    THEN {ReadingsOnly(Num(ExampleReadings[obs.example.pos + 1]), b) :
            b \in {None, Num(HIGH_C + 1)}}
    ELSE {}

NextReal ==
    \/ Advance(UPDATE_INTERVAL_MS, MaxTimeReal)
    \/ /\ now < StartTime + MaxTimeFree
       /\ \E data \in RealPayloads : receive_data(1, data, MaxQueue)
    \/ \E data \in ExamplePayloads : receive_data(1, data, MaxQueue)
    \/ periodic_update_real("ok", "ok")

SpecReal == InitReal /\ [][NextReal]_vars

\* SpecAlerts: check_alerts of SmartThermometerProgram.py, called as
\* periodic_update calls it, with a reading of one sensor at the current
\* time. The readings of sensor 1 are all out of range; those of sensor 2
\* are the two thresholds and values that are no numbers. The clock moves by
\* half a second or by half a second less than ALERT_COOLDOWN.
check_alerts_call(sensor_name, temp_c) ==
    LET st == check_alerts([lat |-> last_alert_time, sms |-> sms],
                           sensor_name, temp_c, now)
    IN /\ last_alert_time' = st.lat
       /\ sms' = st.sms
       /\ UNCHANGED <<app, now, command_state, last_changed, data_queue,
                      last_alert_state, file, temps_c, sensors_enabled,
                      third_box_on, last_recv_time, history_1, history_2,
                      display_units, labels, next_tick, gui, handlers, obs>>

AlertReadings(sensor_name) ==
    IF sensor_name = "sensor1"
    THEN {Num(HIGH_ALERT_C + 1), Num(LOW_ALERT_C - 1)}
    ELSE {Num(HIGH_ALERT_C), Num(LOW_ALERT_C), NaN, Str}

NextAlerts ==
    \/ \E d \in {1, ALERT_COOLDOWN - 1} : Advance(d, MaxTimeAlerts)
    \/ \E sensor_name \in {"sensor1", "sensor2"} :
         \E temp_c \in AlertReadings(sensor_name) :
            check_alerts_call(sensor_name, temp_c)

SpecAlerts == Init /\ [][NextAlerts]_vars

\* SpecAlertsFail: check_alerts called for sensor 1 with readings above
\* HIGH_ALERT_C and below LOW_ALERT_C while client.messages.create returns
\* or raises. sms logs every call of client.messages.create, failed or not;
\* obs.failed.send tells whether the latest one raised.
check_alerts_send(sensor_name, temp_c, send) ==
    LET st == check_alerts([lat |-> last_alert_time, sms |-> sms],
                           sensor_name, temp_c, now)
        called == st.sms # sms
        raised == called /\ SendEscapes(send)
    IN /\ last_alert_time' = IF raised THEN last_alert_time ELSE st.lat
       /\ sms' = st.sms
       /\ obs' = [obs EXCEPT !.failed.send = IF called THEN send = "raises" ELSE @]
       /\ UNCHANGED <<app, now, command_state, last_changed, data_queue,
                      last_alert_state, file, temps_c, sensors_enabled,
                      third_box_on, last_recv_time, history_1, history_2,
                      display_units, labels, next_tick, gui, handlers>>

NextAlertsFail ==
    \/ \E d \in {1, ALERT_COOLDOWN - 1} : Advance(d, MaxTimeAlerts)
    \/ \E temp_c \in AlertReadings("sensor1"), send \in SendOutcomes :
          check_alerts_send("sensor1", temp_c, send)

SpecAlertsFail == Init /\ [][NextAlertsFail]_vars

\* SpecPersist: one round trip. save_history is called with two lists of up
\* to MAX_HISTORY_SEC + 1 entries, possibly several times, and then a new
\* SmartThermometerGUI is constructed from the file it wrote last.
RECURSIVE SeqsUpTo(_, _)
SeqsUpTo(values, n) ==
    IF n = 0 THEN {<<>>}
    ELSE LET shorter == SeqsUpTo(values, n - 1)
         IN shorter \cup {Append(q, x) : q \in shorter, x \in values}

save_history_call(h1, h2) ==
    /\ ~obs.persist.constructed
    /\ file' = save_history(h1, h2, "ok", file)
    /\ obs' = [obs EXCEPT !.persist = [h1 |-> h1, h2 |-> h2, constructed |-> FALSE]]
    /\ UNCHANGED <<app, now, command_state, last_changed, data_queue,
                   last_alert_time, last_alert_state, sms, temps_c,
                   sensors_enabled, third_box_on, last_recv_time, history_1,
                   history_2, display_units, labels, next_tick, gui, handlers>>

\* SmartThermometerGUI.__init__ of SmartThermometerProgram.py, in the
\* running process
construct_gui ==
    /\ temps_c' = [s \in Sensors |-> None]
    /\ sensors_enabled' = [s \in Sensors |-> FALSE]
    /\ third_box_on' = FALSE
    /\ last_recv_time' = 0
    /\ history_1' = InitialHistories(file)[1]
    /\ history_2' = InitialHistories(file)[2]
    /\ display_units' = "C"
    /\ labels' = [s \in Sensors |-> "---"]
    /\ next_tick' = now + UPDATE_INTERVAL_MS
    /\ gui' = GuiIdle
    /\ obs' = [obs EXCEPT !.persist.constructed = TRUE]
    /\ UNCHANGED <<app, now, command_state, last_changed, data_queue,
                   last_alert_time, last_alert_state, sms, file, handlers>>

NextPersist ==
    \/ \E h1 \in SeqsUpTo({Num(25), NaN, None}, MAX_HISTORY_SEC + 1) :
         \E h2 \in SeqsUpTo({Num(33)}, MAX_HISTORY_SEC + 1) :
            save_history_call(h1, h2)
    \/ construct_gui

SpecPersist == Init /\ [][NextPersist]_vars

\* SpecStart: start-up from persisted files that hold no usable record:
\* no file, text that is no JSON, JSON that is no object, and documents
\* whose history_1 or history_2 is absent, empty, null, a string or a
\* number; then requests and ticks as in SpecHist.
MalformedFiles ==
    {FileAbsent, FileGarbage, FileNonObject,
     FileDoc(<<>>, <<JsonNumber(25)>>),
     FileDoc(<<JsonNumber(25)>>, <<>>)}
    \cup {FileDocShaped(IF sh[1] = "string" THEN <<JsonString>> ELSE <<>>,
                        <<JsonNumber(25)>>, sh) :
            sh \in {<<"null", "array">>, <<"string", "array">>, <<"number", "array">>}}
    \cup {FileDocShaped(<<JsonNumber(25)>>,
                        IF sh[2] = "string" THEN <<JsonString>> ELSE <<>>, sh) :
            sh \in {<<"array", "null">>, <<"array", "string">>, <<"array", "number">>}}

InitStart == \E f \in MalformedFiles : Startup(f, StartTime)

NextStart ==
    \/ Advance(UPDATE_INTERVAL_MS, MaxTimeHist)
    \/ /\ gui.pc # "raised"
       /\ \E data \in ReadingPayloads : receive_data(1, data, MaxQueue)
    \/ periodic_update("ok")

SpecStart == InitStart /\ [][NextStart]_vars

\* SpecTicks: the tick under failures. Requests carry readings that are
\* numbers, strings or NaN and report both sensors on, and each tick meets any outcome of the notification call and of
\* the save.
\* Tk runs a callback that is due, hence the fairness condition of
\* FairSpecTicks.
TickPayloads == {d \in PayloadsOf({Num(33), Str, NaN}, {<<TRUE, TRUE>>}) :
                    d.temp1 # NaN /\ d.temp2 # Num(33)}

periodic_update_any ==
    \E send \in SendOutcomes, outcome \in SaveOutcomes : periodic_update_run(send, outcome)

NextTicks ==
    \/ Advance(UPDATE_INTERVAL_MS, MaxTimeTicks)
    \/ \E data \in TickPayloads : receive_data(1, data, MaxQueue)
    \/ periodic_update_any

SpecTicks == Init /\ [][NextTicks]_vars

FairSpecTicks == SpecTicks /\ WF_vars(periodic_update_any)

\* SpecRequests: the requests /data can get. Bodies that are no JSON, JSON
\* that is no object, and objects with or without a reading and sensor
\* states, some holding text that cannot be printed; the user toggles and
\* ticks drain the queue.
Requests ==
    {Request("notjson", NoData, TRUE), Request("nonobject", NoData, TRUE)}
    \cup {Request("object", d, p) :
              d \in {x \in PayloadsOf({None, Num(25)}, FlagInputs) :
                        x.temp2 = None /\ x.has1 = x.has2 /\ x.sensor1 = x.sensor2},
              p \in BOOLEAN}

NextRequests ==
    \/ Advance(1, MaxTimeRequests)
    \/ \E req \in Requests : receive_data_request(1, req, MaxQueue)
    \/ \E s \in Sensors : toggle_sensor_cmd(s)
    \/ periodic_update("ok")

SpecRequests == Init /\ [][NextRequests]_vars

\* SpecInvoke: which readings reach check_alerts. Requests carry for both
\* sensors the same reading (absent, a number above the high threshold, NaN
\* or a string) and report both sensors on, both off, or neither.
InvokePayloads ==
    {d \in PayloadsOf({None, Num(33), NaN, Str}, FlagInputs) :
        d.temp1 = d.temp2 /\ d.has1 = d.has2 /\ d.sensor1 = d.sensor2}

NextInvoke ==
    \/ Advance(UPDATE_INTERVAL_MS, MaxTimeGate)
    \/ \E data \in InvokePayloads : receive_data(1, data, MaxQueue)
    \/ periodic_update("ok")

SpecInvoke == Init /\ [][NextInvoke]_vars

\* SpecGraph: what redraw_graph draws. The process starts from any of
\* InitialFiles, a request carries a reading for sensor 1 and reports both
\* sensors on, the user switches the display unit, ticks append and redraw.
GraphPayloads ==
    {d \in PayloadsOf({None, Num(33)}, {<<TRUE, TRUE>>}) : d.temp1 = Num(33) /\ d.temp2 = None}

NextGraph ==
    \/ Advance(UPDATE_INTERVAL_MS, MaxTimeGraph)
    \/ \E data \in GraphPayloads : receive_data(1, data, MaxQueue)
    \/ toggle_units
    \/ periodic_update("ok")

SpecGraph == InitHist /\ [][NextGraph]_vars

\* SpecRedraw: SpecGraph with redraw_graph also called between the ticks.
SpecRedraw == InitHist /\ [][NextGraph \/ redraw_graph]_vars

\* SpecSegments: get_segments and plot_segments applied to every list of up
\* to MaxLenSegments entries that are numbers, NaN or None, with x the
\* seconds ago.
segments_call(y_data) ==
    /\ obs' = [obs EXCEPT !.segments =
                 LET x == SecondsAgo(Len(y_data))
                     got == get_segments(x, y_data)
                 IN [called |-> TRUE, y_data |-> y_data, xs |-> got[1], ys |-> got[2],
                     plotted |-> plot_segments(x, y_data, "Sensor 1")]]
    /\ UNCHANGED <<app, now, command_state, last_changed, data_queue,
                   last_alert_time, last_alert_state, sms, file, temps_c,
                   sensors_enabled, third_box_on, last_recv_time, history_1,
                   history_2, display_units, labels, next_tick, gui, handlers>>

NextSegments ==
    \E y_data \in SeqsUpTo({Num(25), Num(33), NaN, None}, MaxLenSegments) :
        segments_call(y_data)

SpecSegments == Init /\ [][NextSegments]_vars

\* SpecRealStart: smartguireal.py started from any of InitialFiles, then
\* requests with readings and ticks.
InitRealStart == \E f \in InitialFiles : StartupReal(f, StartTime)

RealStartPayloads == {ReadingsOnly(a, None) : a \in {None, Num(HIGH_C)}}

NextRealStart ==
    \/ Advance(UPDATE_INTERVAL_MS, MaxTimeRealStart)
    \/ \E data \in RealStartPayloads : receive_data(1, data, MaxQueue)
    \/ periodic_update_real("ok", "ok")

SpecRealStart == InitRealStart /\ [][NextRealStart]_vars

\* SpecRealFail: the tick of smartguireal.py under failures. Requests carry
\* for sensor 1 a number above HIGH_C, a string or nothing, and the
\* notification call of a tick returns or raises.
NextRealFail ==
    \/ Advance(UPDATE_INTERVAL_MS, MaxTimeRealStart)
    \/ \E a \in {None, Num(HIGH_C + 1), Str} :
          receive_data(1, ReadingsOnly(a, None), MaxQueue)
    \/ \E send \in SendOutcomes : periodic_update_real(send, "ok")

SpecRealFail == InitReal /\ [][NextRealFail]_vars

\* SpecRealAlerts: the alert logic of smartguireal.py with sensor 1 below
\* LOW_C, at HIGH_C, above it or without a reading and sensor 2 at LOW_C or
\* above HIGH_C, ticks with and without a message, and notification calls
\* that return or raise.
RealAlertPayloads ==
    {ReadingsOnly(a, b) :
        a \in {None, Num(LOW_C - 1), Num(HIGH_C), Num(HIGH_C + 1)},
        b \in {Num(LOW_C), Num(HIGH_C + 1)}}

NextRealAlerts ==
    \/ Advance(UPDATE_INTERVAL_MS, MaxTimeRealAlerts)
    \/ \E data \in RealAlertPayloads : receive_data(1, data, MaxQueue)
    \/ \E send \in SendOutcomes : periodic_update_real(send, "ok")

SpecRealAlerts == InitReal /\ [][NextRealAlerts]_vars

\* SpecPerSensor: either alert engine: smartguireal.py (it starts with
\* temps_c at 22.0 and never stores None there) with the ticks of
\* SpecRealAlerts, or SmartThermometerProgram.py (temps_c starts at None)
\* with check_alerts called for either sensor with a reading above
\* HIGH_ALERT_C, below LOW_ALERT_C or at a threshold.
InitPerSensor == Init \/ InitReal

RealRuns == ~IsNone(temps_c[1])

PerSensorReadings == {Num(HIGH_ALERT_C + 1), Num(LOW_ALERT_C - 1), Num(LOW_ALERT_C)}

NextPerSensor ==
    \/ Advance(UPDATE_INTERVAL_MS, MaxTimePerSensor)
    \/ /\ RealRuns
       /\ \E data \in RealAlertPayloads : receive_data(1, data, MaxQueue)
    \/ /\ RealRuns
       /\ \E send \in SendOutcomes : periodic_update_real(send, "ok")
    \/ /\ ~RealRuns
       /\ \E sensor_name \in {"sensor1", "sensor2"} :
             \E temp_c \in PerSensorReadings :
                check_alerts_call(sensor_name, temp_c)

SpecPerSensor == InitPerSensor /\ [][NextPerSensor]_vars

\* SpecFrame: the command path of either program: requests that report the
\* state of both sensors or of neither and carry no reading (so temps_c
\* stays None in SmartThermometerProgram.py and 22.0 in smartguireal.py),
\* the toggles of the user, and the ticks of the program that runs.
NextFrame ==
    \/ Advance(1, MaxTimeFrame)
    \/ \E data \in CommandPayloads : receive_data(1, data, MaxQueue)
    \/ \E s \in Sensors : toggle_sensor_cmd(s)
    \/ ~RealRuns /\ periodic_update("ok")
    \/ RealRuns /\ periodic_update_real("ok", "ok")

SpecFrame == InitPerSensor /\ [][NextFrame]_vars

\* SpecSend: SmartThermometerProgram.py with notification calls that take
\* time. Requests report both sensors on and carry a reading of sensor 1
\* above HIGH_ALERT_C or none. A tick that sends either runs at once (the
\* call returns immediately) or stays in the call while time passes and
\* requests arrive. The program's own steps are fair; when the call returns
\* is up to the notification service.
SendPayloads == PayloadsOf({None, Num(HIGH_ALERT_C + 1)}, {<<TRUE, TRUE>>})

periodic_update_own ==
    periodic_update("ok") \/ periodic_update_send_begin

NextSend ==
    \/ Advance(UPDATE_INTERVAL_MS, MaxTimeSend)
    \/ \E data \in SendPayloads : receive_data(1, data, MaxQueue)
    \/ periodic_update_own
    \/ \E send \in SendOutcomes : periodic_update_send_return(send)

SpecSend == Init /\ [][NextSend]_vars

FairSpecSend == SpecSend /\ WF_vars(periodic_update_own)

\* ---------------------------------------------------------- STClaudeGUI.py
\* ThermometerGUI of STClaudeGUI.py: temp1_data and temp2_data are history_1
\* and history_2, temp_unit is display_units, current_temp1 / current_temp2
\* are temps_c, sensor1_hw_enabled / sensor2_hw_enabled are sensors_enabled,
\* the alerts send_temperature_alert sends are logged in sms, and gui.pc is
\* "after" while a root.after(0, self.update_temperature_display) callback
\* is waiting for the Tk thread.

\* celsius * 9/5 + 32, kept exact in fifths of a degree
celsius_to_fahrenheit(celsius) == [k |-> "fifths", v |-> celsius.v * 9 + 32 * 5]

\* deque(maxlen=300).append(x), the capacity scaled to TEMP_DATA_MAXLEN
TempDataAppend(d, x) ==
    IF Len(d) >= TEMP_DATA_MAXLEN THEN Tail(d) \o <<x>> ELSE Append(d, x)

\* temp1_display / temp2_display
TempDisplay(unit, temp, connected) ==
    IF ~connected THEN Num(0)
    ELSE IF unit = "F" THEN celsius_to_fahrenheit(temp) ELSE temp

\* what "Store data for graphing" appends for one sensor
TempDataEntry(on, connected, hw_enabled, display) ==
    IF on /\ connected /\ hw_enabled THEN display ELSE NaN

\* the text of temp1_label / temp2_label
TempLabel(on, connected, hw_enabled) ==
    IF ~on THEN "No Data Available"
    ELSE IF ~connected THEN "Sensor Unplugged"
    ELSE IF ~hw_enabled THEN "OFF" ELSE "value"

\* time_data after the update at time t: appended with the reading of
\* sensor 1, else only when empty or a second after its newest entry
TimeDataAfter(time_data, with_reading, t) ==
    IF with_reading \/ time_data = <<>> \/ t - time_data[Len(time_data)] >= 2
    THEN TempDataAppend(time_data, t)
    ELSE time_data

\* check_temperature_alerts compares in Celsius; in unit F the thresholds
\* go through fahrenheit_to_celsius(f) = (f - 32) * 5/9, compared exactly
AboveMax(temp, unit) ==
    IF unit = "F" THEN temp.v * 9 > (MAX_TEMP - 32) * 5 ELSE temp.v > MAX_TEMP
BelowMin(temp, unit) ==
    IF unit = "F" THEN temp.v * 9 < (MIN_TEMP - 32) * 5 ELSE temp.v < MIN_TEMP

\* send_temperature_alert(sensor_num, temperature, alert_type) at time t:
\* one entry per channel used, e-mail (a thread running send_email_alert)
\* and then SMS
send_temperature_alert(log, sensor_num, alert_type, t) ==
    LET entry == [key |-> AlertKey(SensorKey(sensor_num), alert_type), at |-> t]
        mailed == IF app.alert_email /\ app.email_username
                  THEN Append(log, entry) ELSE log
    IN IF app.alert_phone THEN Append(mailed, entry) ELSE mailed

\* "Check sensor s" of check_temperature_alerts
CheckSensor(log, s, t) ==
    IF app.sensor_connected[s]
       /\ (AboveMax(temps_c[s], display_units) \/ BelowMin(temps_c[s], display_units))
    THEN send_temperature_alert(log, s,
            IF AboveMax(temps_c[s], display_units) THEN "high" ELSE "low", t)
    ELSE log

check_temperature_alerts(log, t) ==
    IF ~third_box_on THEN log ELSE CheckSensor(CheckSensor(log, 1, t), 2, t)

\* root.after(0, self.update_temperature_display)
ScheduleUpdate == [gui EXCEPT !.pc = "after"]

\* The simulate thread, one round: readings, connections and third_box_on
\* are drawn, then the update is handed to the Tk thread.
simulate(temp1, temp2, connected1, connected2, on) ==
    /\ gui.pc = "idle"
    /\ temps_c' = [s \in Sensors |-> IF s = 1 THEN temp1 ELSE temp2]
    /\ app' = [app EXCEPT !.sensor_connected =
                 [s \in Sensors |-> IF s = 1 THEN connected1 ELSE connected2]]
    /\ third_box_on' = on
    /\ gui' = ScheduleUpdate
    /\ UNCHANGED <<now, command_state, last_changed, data_queue, last_alert_time,
                   last_alert_state, sms, file, sensors_enabled, last_recv_time,
                   history_1, history_2, display_units, labels, next_tick,
                   handlers, obs>>

\* parse_serial_data(data) for the lines the ESP32 prints: the display
\* switch, a button press, and a pair of temperatures (a sensor reading
\* -127 is disconnected)
SwitchLine(on) == [kind |-> "switch", on |-> on, sensor |-> 1, temp1 |-> Num(0), temp2 |-> Num(0)]
ButtonLine(s) == [kind |-> "button", on |-> FALSE, sensor |-> s, temp1 |-> Num(0), temp2 |-> Num(0)]
TempsLine(temp1, temp2) ==
    [kind |-> "temps", on |-> FALSE, sensor |-> 1, temp1 |-> temp1, temp2 |-> temp2]

parse_serial_data(data) ==
    /\ gui.pc = "idle"
    /\ third_box_on' = IF data.kind = "switch" THEN data.on ELSE third_box_on
    /\ sensors_enabled' =
          IF data.kind = "button"
          THEN [sensors_enabled EXCEPT ![data.sensor] = ~sensors_enabled[data.sensor]]
          ELSE sensors_enabled
    /\ temps_c' = IF data.kind = "temps"
                  THEN [s \in Sensors |-> IF s = 1 THEN data.temp1 ELSE data.temp2]
                  ELSE temps_c
    /\ app' = IF data.kind = "temps"
              THEN [app EXCEPT !.sensor_connected =
                      [s \in Sensors |->
                          (IF s = 1 THEN data.temp1.v ELSE data.temp2.v) > 0 - 100]]
              ELSE app
    /\ gui' = IF data.kind = "button" THEN gui ELSE ScheduleUpdate
    /\ UNCHANGED <<now, command_state, last_changed, data_queue, last_alert_time,
                   last_alert_state, sms, file, last_recv_time, history_1,
                   history_2, display_units, labels, next_tick, handlers, obs>>

\* one of the two unit Radiobuttons is clicked
select_unit(unit) ==
    /\ display_units' = unit
    /\ UNCHANGED <<app, now, command_state, last_changed, data_queue,
                   last_alert_time, last_alert_state, sms, file, temps_c,
                   sensors_enabled, third_box_on, last_recv_time, history_1,
                   history_2, labels, next_tick, gui, handlers, obs>>

\* the user fills in the phone number of the alert settings
enter_alert_phone ==
    /\ ~app.alert_phone
    /\ app' = [app EXCEPT !.alert_phone = TRUE]
    /\ UNCHANGED <<now, command_state, last_changed, data_queue,
                   last_alert_time, last_alert_state, sms, file, temps_c,
                   sensors_enabled, third_box_on, last_recv_time, history_1,
                   history_2, display_units, labels, next_tick, gui, handlers, obs>>

\* if len(self.temp2_data) < len(self.temp1_data), evaluated after the
\* append to temp1_data
Temp2Guard(temp2_data, temp1_data) == Len(temp2_data) < Len(temp1_data)

\* update_temperature_display, run by the Tk thread
update_temperature_display ==
    /\ gui.pc = "after"
    /\ LET unit == display_units
           on == third_box_on
           conn == app.sensor_connected
           display == [s \in Sensors |-> TempDisplay(unit, temps_c[s], conn[s])]
           entry == [s \in Sensors |->
                        TempDataEntry(on, conn[s], sensors_enabled[s], display[s])]
           temp1_data == TempDataAppend(history_1, entry[1])
       IN /\ labels' = [s \in Sensors |-> TempLabel(on, conn[s], sensors_enabled[s])]
          /\ history_1' = temp1_data
          /\ app' = [app EXCEPT !.time_data =
                       TimeDataAfter(@, on /\ conn[1] /\ sensors_enabled[1], now)]
          /\ history_2' = IF Temp2Guard(history_2, temp1_data)
                          THEN TempDataAppend(history_2, entry[2])
                          ELSE history_2
          /\ sms' = check_temperature_alerts(sms, now)
    /\ gui' = [gui EXCEPT !.pc = "idle"]
    /\ obs' = [obs EXCEPT !.alerted =
                 LET log == check_temperature_alerts(<<>>, now)
                 IN {log[i].key : i \in 1..Len(log)}]
    /\ UNCHANGED <<now, command_state, last_changed, data_queue, last_alert_time,
                   last_alert_state, file, temps_c, sensors_enabled, third_box_on,
                   last_recv_time, display_units, next_tick, handlers>>

\* SpecClaude: STClaudeGUI.py from its start: simulated rounds with sensor 1
\* connected or not, serial lines (the display switch, the two buttons, a
\* reading above max_temp, a disconnected sensor 2), both units, and the
\* alert phone number filled in before the first update or never. No new
\* update is handed over once MaxAlertsClaude alerts were sent.
InitClaude ==
    /\ now = StartTime
    /\ command_state = [k \in CommandKeys |-> k = "display_on"]
    /\ last_changed = [k \in CommandKeys |-> 0]
    /\ data_queue = <<>>
    /\ last_alert_time = [k \in AlertKeys |-> 0]
    /\ last_alert_state = [s \in Sensors |-> "None"]
    /\ sms = <<>>
    /\ file = FileAbsent
    /\ temps_c = [s \in Sensors |-> Num(0)]
    /\ sensors_enabled = [s \in Sensors |-> FALSE]
    /\ third_box_on = TRUE
    /\ last_recv_time = 0
    /\ history_1 = <<>>
    /\ history_2 = <<>>
    /\ display_units = "C"
    /\ labels = [s \in Sensors |-> "---"]
    /\ next_tick = NoTick
    /\ gui = GuiIdle
    /\ handlers = [h \in Handlers |-> HandlerIdle]
    /\ app = AppInit
    /\ obs = ObsInit

SimulatedRounds == {<<TRUE, TRUE, TRUE>>, <<FALSE, TRUE, TRUE>>}

SerialLines ==
    {SwitchLine(on) : on \in BOOLEAN} \cup {ButtonLine(s) : s \in Sensors}
    \cup {TempsLine(Num(MAX_TEMP + 5), Num(25)), TempsLine(Num(25), Num(0 - 127))}

NextClaude ==
    \/ Advance(2, MaxTimeClaude)
    \/ \E r \in SimulatedRounds :
          Len(sms) < MaxAlertsClaude /\ simulate(Num(25), Num(25), r[1], r[2], r[3])
    \/ \E data \in SerialLines :
          Len(sms) < MaxAlertsClaude /\ parse_serial_data(data)
    \/ \E unit \in {"C", "F"} : select_unit(unit)
    \/ history_1 = <<>> /\ enter_alert_phone
    \/ update_temperature_display

SpecClaude == InitClaude /\ [][NextClaude]_vars

\* ------------------------------------------------------------- properties
History(s) == IF s = 1 THEN history_1 ELSE history_2
Newest(h) == h[Len(h)]
\* a step that is a whole periodic_update: it asks Tk for the next tick
TickStep == next_tick' # next_tick
\* a tick ran at the present instant
TickJustRan == next_tick = now + UPDATE_INTERVAL_MS

\* C1: a tick that reads command_state['sensor<s>'] as false appends the
\* missing marker to history_<s>, whatever the drained message carries.
C1_GatedSensorRecordsMissing ==
    [][TickStep =>
         \A s \in Sensors :
            ~command_state[SensorKey(s)] => IsNaN(Newest(History(s)'))]_vars

\* the user switched sensor 1 on, a tick recorded its reading, the user
\* switched it off, and the tick that has just run used a message received
\* at this instant with a reading of sensor 1 and appended the missing
\* marker to history_1
C1_Witness ==
    /\ TickJustRan
    /\ last_recv_time = now
    /\ temps_c[1] = Num(25)
    /\ last_changed["sensor1"] >= StartTime
    /\ ~sensors_enabled[1]
    /\ ~command_state["sensor1"]
    /\ history_1[MAX_HISTORY_SEC - 1] = Num(25)
    /\ IsNaN(Newest(history_1))

\* C2: a tick that drains no message appends the missing marker to both
\* histories (so it does while no message arrives for more than
\* THIRD_BOX_TIMEOUT_S).
C2_NoMessageRecordsMissing ==
    [][TickStep /\ data_queue = <<>> =>
         IsNaN(Newest(history_1')) /\ IsNaN(Newest(history_2'))]_vars

\* more than THIRD_BOX_TIMEOUT_S after the last message, a tick
\* has just run with sensor 1 on and a last known reading of it, and both
\* newest entries are missing.
C2_Witness ==
    /\ TickJustRan
    /\ now - last_recv_time > THIRD_BOX_TIMEOUT_S
    /\ last_recv_time >= StartTime
    /\ sensors_enabled[1] /\ temps_c[1] = Num(25)
    /\ IsNaN(Newest(history_1)) /\ IsNaN(Newest(history_2))
    /\ ~third_box_on

\* C3: both histories have exactly MAX_HISTORY_SEC entries after __init__
\* and after every tick, and a tick drops the oldest entry and adds one at
\* the tail.
C3_HistoryLengthFixed ==
    /\ [](Len(history_1) = MAX_HISTORY_SEC /\ Len(history_2) = MAX_HISTORY_SEC)
    /\ [][TickStep =>
            \A s \in Sensors :
               /\ Len(History(s)') = Len(History(s))
               /\ \A i \in 1..(Len(History(s)) - 1) : History(s)'[i] = History(s)[i + 1]]_vars

\* at least two ticks after start-up, with the histories saved: the reading
\* an earlier tick appended has moved towards the head, a missing marker
\* is at the tail and the lengths are unchanged
C3_Witness ==
    /\ file.t = "doc"
    /\ next_tick >= StartTime + 3 * UPDATE_INTERVAL_MS
    /\ history_1[MAX_HISTORY_SEC - 1] = Num(25)
    /\ IsNaN(history_1[MAX_HISTORY_SEC])
    /\ Len(history_1) = MAX_HISTORY_SEC /\ Len(history_2) = MAX_HISTORY_SEC

\* C4: a request run alone replaces command_state['sensor<s>'] by the
\* reported value exactly when more than 1.0 s has passed since
\* last_changed['sensor<s>'], and leaves it as it was otherwise (also at
\* exactly 1.0 s).
C4_ReportAcceptedOnlyAfterCooldown ==
    [][\A data \in CommandPayloads :
         receive_data(1, data, MaxQueue) =>
            /\ command_state'["sensor1"] =
                 IF data.has1 /\ now - last_changed["sensor1"] > DEBOUNCE
                 THEN data.sensor1 ELSE command_state["sensor1"]
            /\ command_state'["sensor2"] =
                 IF data.has2 /\ now - last_changed["sensor2"] > DEBOUNCE
                 THEN data.sensor2 ELSE command_state["sensor2"]]_vars

\* exactly 1.0 s after sensor 1 was toggled off, a request
\* received at this instant reported it on, and it is still off.
C4_Witness ==
    /\ last_changed["sensor1"] = now - DEBOUNCE
    /\ obs.toggled[1] = FALSE
    /\ obs.reported[1] = "True"
    /\ data_queue # <<>>
    /\ Newest(data_queue).server_recv_time = now
    /\ command_state["sensor1"] = FALSE

\* C5 (as claimed): within the 1 s after a toggle of sensor s was stamped,
\* command_state['sensor<s>'] holds the value the toggle wrote, under every
\* interleaving of toggle_sensor_cmd with receive_data.
C5_ToggleWinsItsWindow ==
    \A s \in Sensors :
        (/\ last_changed[SensorKey(s)] >= StartTime
         /\ ~(gui.pc \in {"tog_write", "tog_stamp"} /\ gui.sensor_num = s)
         /\ now - last_changed[SensorKey(s)] <= DEBOUNCE)
        => command_state[SensorKey(s)] = obs.toggled[s]

\* the tick in progress has made its two history appends
TickAppended == gui.pc \in {"label1", "label2"}

IsPrefix(p, q) == Len(p) <= Len(q) /\ SubSeq(q, 1, Len(p)) = p

\* the state a tick leaves when it used message m
UsedMessage(m) ==
    /\ last_recv_time = m.server_recv_time
    /\ temps_c = [s \in Sensors |-> IF s = 1 THEN ParseTemp(m.temp1)
                                              ELSE ParseTemp(m.temp2)]
    /\ \A s \in Sensors :
          History(s) = LastN(Append(obs.tick.hist_before[s],
                                    HistoryEntry(sensors_enabled[s], temps_c[s])),
                             MAX_HISTORY_SEC)

TickStepReal == next_tick' # next_tick /\ next_tick' # NoTick

\* the step sends a notification of that kind for sensor s
SentNow(s, kind) ==
    \E i \in (Len(sms) + 1)..Len(sms') :
        sms'[i].key = AlertKey(SensorKey(s), kind)

\* the reading of sensor s that the tick's alert logic sees
ReadingNow(s) == sensors_enabled'[s] /\ temps_c'[s].k = "num"

\* C7: in smartguireal.py a tick sends a high notification for a sensor if
\* and only if its reading is above HIGH_C and last_alert_state of the
\* sensor is not "high"; it sends it once and leaves last_alert_state at
\* "high", where it stays while the readings stay above HIGH_C, so that they
\* send nothing more; the readings 30, 33, 34, 33, 20, 33 send exactly at
\* positions 1 and 5.
C7_HighNotificationEdgeTriggered ==
    /\ [][TickStepReal =>
            \A s \in Sensors :
                /\ SentNow(s, "high") <=>
                      (/\ ReadingNow(s)
                       /\ temps_c'[s].v > HIGH_C
                       /\ last_alert_state[s] # "high")
                /\ SentNow(s, "high") =>
                      /\ last_alert_state'[s] = "high"
                      /\ Cardinality({i \in (Len(sms) + 1)..Len(sms') :
                            sms'[i].key = AlertKey(SensorKey(s), "high")}) = 1
                /\ (/\ last_alert_state[s] = "high"
                    /\ ReadingNow(s)
                    /\ temps_c'[s].v > HIGH_C) => last_alert_state'[s] = "high"]_vars
    /\ [](obs.example.pos = Len(ExampleReadings) => obs.example.fired = <<1, 5>>)

\* the six readings of the example have been used, the last one has just
\* sent the second high notification for sensor 1
C7_Witness ==
    /\ obs.example.pos = Len(ExampleReadings)
    /\ obs.example.fired = <<1, 5>>
    /\ last_alert_state[1] = "high"
    /\ temps_c[1] = Num(33)
    /\ sms # <<>>
    /\ Newest(sms) = [key |-> "sensor1_high", at |-> now]

\* C8: in smartguireal.py a tick at which the reading of an enabled sensor
\* lies in [LOW_C, HIGH_C] sends no notification for that sensor and sets
\* its last_alert_state to None; and a tick that finds last_alert_state at
\* None and the reading out of range sends a notification.
C8_InRangeSilentAndRearms ==
    [][TickStepReal =>
         \A s \in Sensors :
             /\ (/\ ReadingNow(s)
                 /\ LOW_C <= temps_c'[s].v
                 /\ temps_c'[s].v <= HIGH_C)
                => /\ ~SentNow(s, "high")
                   /\ ~SentNow(s, "low")
                   /\ last_alert_state'[s] = "None"
             /\ (/\ ReadingNow(s)
                 /\ last_alert_state[s] = "None"
                 /\ (temps_c'[s].v < LOW_C \/ temps_c'[s].v > HIGH_C))
                => (SentNow(s, "high") \/ SentNow(s, "low"))]_vars

\* sensor 1 sent a low notification, came back to LOW_C exactly, which reset
\* last_alert_state, and the tick after that sent a low notification again
C8_Witness ==
    /\ Len(sms) = 2
    /\ sms[1].key = "sensor1_low"
    /\ sms[2] = [key |-> "sensor1_low", at |-> now]
    /\ sms[1].at = now - 2 * UPDATE_INTERVAL_MS
    /\ history_1 = <<Num(LOW_C), Num(LOW_C - 1)>>
    /\ last_alert_state[1] = "low"

\* the time of the last notification logged under key, 0 when there is none
LastSent(key) ==
    LET at == {sms[i].at : i \in {j \in 1..Len(sms) : sms[j].key = key}}
    IN IF at = {} THEN 0 ELSE CHOOSE a \in at : \A b \in at : b <= a

\* the reading is out of range for the kind of key
OutOfRange(key, temp_c) ==
    /\ temp_c.k = "num"
    /\ IF key \in {"sensor1_high", "sensor2_high"}
       THEN temp_c.v > HIGH_ALERT_C ELSE temp_c.v < LOW_ALERT_C

\* C9: two notifications of one kind for one sensor are sent at least
\* ALERT_COOLDOWN apart; a call of check_alerts with an out-of-range reading
\* sends a notification of that kind if and only if ALERT_COOLDOWN or more
\* has passed since the last one of that kind for that sensor, whether or
\* not a reading in range came in between.
C9_CooldownBetweenNotifications ==
    /\ [](\A i, j \in 1..Len(sms) :
            (i < j /\ sms[i].key = sms[j].key)
                => sms[j].at - sms[i].at >= ALERT_COOLDOWN)
    /\ [][\A sensor_name \in {"sensor1", "sensor2"} :
            \A temp_c \in AlertReadings(sensor_name) :
              check_alerts_call(sensor_name, temp_c) =>
                \A kind \in {"high", "low"} :
                  LET key == AlertKey(sensor_name, kind)
                  IN (LastSent(key)' # LastSent(key)) <=>
                        (/\ OutOfRange(key, temp_c)
                         /\ now - LastSent(key) >= ALERT_COOLDOWN)]_vars

\* sensor 1, whose readings are never in range, has sent a second high
\* notification exactly ALERT_COOLDOWN after the first
C9_Witness ==
    /\ Len(sms) = 2
    /\ sms[1].key = "sensor1_high"
    /\ sms[2] = [key |-> "sensor1_high", at |-> now]
    /\ sms[2].at - sms[1].at = ALERT_COOLDOWN
    /\ last_alert_time["sensor1_high"] = now

\* h cut to its most recent MAX_HISTORY_SEC entries, or left-padded with
\* missing markers to MAX_HISTORY_SEC
CutOrPad(h) ==
    LET kept == LastN(h, MAX_HISTORY_SEC)
    IN NaNs(MAX_HISTORY_SEC - Len(kept)) \o kept

JustStarted == now = StartTime /\ obs = ObsInit /\ data_queue = <<>>

\* C11 (as claimed): whatever the persistence file holds, __init__ does not
\* raise, and a file without two non-empty arrays leaves both histories at
\* MAX_HISTORY_SEC missing markers.
C11_StartupNeverRaises ==
    JustStarted =>
        /\ gui.pc # "raised"
        /\ history_1 = NaNs(MAX_HISTORY_SEC)
        /\ history_2 = NaNs(MAX_HISTORY_SEC)

\* C12: every run of periodic_update schedules the next one, whatever the
\* drained message holds and whether or not the notification call or the
\* save fails; a tick is always scheduled, and a tick that is due runs.
C12_TicksKeepOccurring ==
    /\ [][TickStep => next_tick' = now + UPDATE_INTERVAL_MS]_vars
    /\ [](next_tick # NoTick)
    /\ ((now >= next_tick) ~> TickJustRan)

\* a tick has just run in which the notification call raised, the save
\* failed and a reading was a string
C12_Witness ==
    /\ TickJustRan
    /\ obs.failed.send /\ obs.failed.save /\ obs.failed.nonnumeric

\* a step of SpecRequests that is one request to /data answered: neither
\* the clock nor the tick nor the user's last change moves
RequestStep ==
    /\ now' = now /\ next_tick' = next_tick /\ last_changed' = last_changed
    /\ <<command_state, data_queue, handlers>>' # <<command_state, data_queue, handlers>>

\* C13 (as claimed): a request answered with the error response leaves
\* command_state, last_changed and data_queue as they were, and a request
\* answered with success has pushed exactly one message to data_queue.
C13_ErrorLeavesStateUntouched ==
    [][RequestStep =>
         /\ handlers'[1].resp.status = "error"
               => UNCHANGED <<command_state, last_changed, data_queue>>
         /\ handlers'[1].resp.status = "success"
               => /\ Len(data_queue') = Len(data_queue) + 1
                  /\ IsPrefix(data_queue, data_queue')]_vars

\* C14 (as claimed): after every tick third_box_on is true exactly when the
\* time of the tick is at most THIRD_BOX_TIMEOUT_S after last_recv_time,
\* also when the tick drained a message received longer ago than that.
C14_ThirdBoxIffRecent ==
    [][TickStep =>
         (third_box_on' <=> (now - last_recv_time' <= THIRD_BOX_TIMEOUT_S))]_vars

\* the tick that is this step called check_alerts for sensor s
Invoked(s) == CheckAlertsInvoked(data_queue # <<>>, sensors_enabled'[s], temps_c'[s])
\* the tick that is this step sent a notification for sensor s
NotifiedFor(s) ==
    /\ Len(sms') > Len(sms)
    /\ \E i \in (Len(sms) + 1)..Len(sms') :
          sms'[i].key \in {AlertKey(SensorKey(s), "high"), AlertKey(SensorKey(s), "low")}
\* the reading of sensor s in the message the tick that is this step uses
DrainedReading(s) ==
    LET latest_msg == DrainLatest(data_queue, NoMsg, FALSE)
    IN IF s = 1 THEN latest_msg.temp1 ELSE latest_msg.temp2
\* no notification for a sensor on a tick that drained no message, nor for
\* a sensor whose desired state was false or whose reading was absent
NotifiedOnlyForGatedReading(s) ==
    NotifiedFor(s) => /\ data_queue # <<>>
                      /\ command_state[SensorKey(s)]
                      /\ ~IsNone(DrainedReading(s))

\* C15 (as claimed): a tick calls check_alerts for sensor s exactly when it
\* appends a non-missing value to history_<s>, and sends no notification
\* for a sensor without a drained message, a true desired state and a
\* reading.
C15_InvokedIffAppended ==
    [][TickStep =>
         \A s \in Sensors :
            /\ Invoked(s) <=> ~IsNaN(Newest(History(s)'))
            /\ NotifiedOnlyForGatedReading(s)]_vars

\* C15 (amended): a tick calls check_alerts for sensor s exactly when it
\* drained a message, the desired state of s is true and the reading parsed
\* to a float; the value it then appends is that float, which is the
\* missing marker when the reading is NaN, and every non-missing value
\* appended has been checked. Notifications as claimed.
C15_InvokedIffParsedReading ==
    [][TickStep =>
         \A s \in Sensors :
            /\ Invoked(s) <=> /\ data_queue # <<>>
                              /\ command_state[SensorKey(s)]
                              /\ DrainedReading(s).k \in {"num", "nan"}
            /\ Invoked(s) => Newest(History(s)') = DrainedReading(s)
            /\ ~IsNaN(Newest(History(s)')) => Invoked(s)
            /\ NotifiedOnlyForGatedReading(s)]_vars

\* a tick has just used a NaN reading of sensor 1 while its desired state
\* was true (check_alerts was called with NaN), and a notification for
\* sensor 2 has been sent by an earlier tick
C15_Witness ==
    /\ TickJustRan
    /\ sensors_enabled[1] /\ IsNaN(temps_c[1]) /\ last_recv_time > 0
    /\ \E i \in 1..Len(sms) : sms[i].key = "sensor2_high"

\* sensor s has been toggled and no request has been received at or after
\* the stamp of the toggle: the request handled now is the next one
NoRequestSinceToggle(s) ==
    /\ last_changed[SensorKey(s)] >= StartTime
    /\ last_recv_time < last_changed[SensorKey(s)]
    /\ \A i \in 1..Len(data_queue) :
          data_queue[i].server_recv_time < last_changed[SensorKey(s)]

RECURSIVE Concat(_)
Concat(seqs) == IF seqs = <<>> THEN <<>> ELSE Head(seqs) \o Concat(Tail(seqs))

Present(x) == ~Missing(x)

\* C18: get_segments returns, and plot_segments plots, exactly the maximal
\* runs of consecutive present values in order: no run is empty or holds a
\* missing entry, each run is a stretch of consecutive entries of the
\* input, two runs have a missing entry between them, and the runs put
\* together are the present entries of the input in order.
C18_SegmentsAreMaximalRuns ==
    obs.segments.called =>
        LET y_data == obs.segments.y_data
            n == Len(y_data)
            xs == obs.segments.xs
            ys == obs.segments.ys
            pos(x) == n - x + 1
        IN /\ Len(xs) = Len(ys)
           /\ \A j \in 1..Len(ys) :
                 /\ ys[j] # <<>> /\ Len(xs[j]) = Len(ys[j])
                 /\ \A k \in 1..Len(ys[j]) :
                       /\ Present(ys[j][k])
                       /\ pos(xs[j][k]) \in 1..n
                       /\ ys[j][k] = y_data[pos(xs[j][k])]
                       /\ k > 1 => pos(xs[j][k]) = pos(xs[j][k - 1]) + 1
                 /\ j > 1 => \E p \in (pos(xs[j - 1][Len(xs[j - 1])]) + 1)..(pos(xs[j][1]) - 1) :
                                 Missing(y_data[p])
           /\ Concat(ys) = SelectSeq(y_data, Present)
           /\ Len(obs.segments.plotted) = Len(ys)
           /\ \A j \in 1..Len(ys) :
                 /\ obs.segments.plotted[j].x = xs[j]
                 /\ obs.segments.plotted[j].y = ys[j]

\* a list with a run, a missing entry and a run of two that ends the list
\* has been cut into exactly these two runs
C18_Witness ==
    /\ obs.segments.called
    /\ obs.segments.y_data = <<Num(25), NaN, Num(33), Num(25)>>
    /\ obs.segments.ys = <<(<<Num(25)>>), (<<Num(33), Num(25)>>)>>
    /\ obs.segments.xs = <<(<<4>>), (<<2, 1>>)>>

\* C19 (as claimed): a tick of smartguireal.py that finds
\* command_state['sensor<s>'] false appends the missing marker to
\* history_<s>, also when the drained message carries a number for s.
C19_RealGatedSensorRecordsMissing ==
    [][TickStepReal =>
         \A s \in Sensors :
            ~command_state[SensorKey(s)] => IsNaN(Newest(History(s)'))]_vars

\* C20 (as claimed): __init__ of smartguireal.py, given a record with two
\* non-empty lists, left-pads each history with missing markers to
\* MAX_HISTORY_SEC entries when the list is shorter, and keeps the most
\* recent MAX_HISTORY_SEC entries when it is longer.
C20_RealStartupPadsAndCuts ==
    (JustStarted /\ file.t = "doc" /\ file.history_1 # <<>> /\ file.history_2 # <<>>)
        => \A s \in Sensors :
              LET loaded == Sanitize(JsonLoadList(IF s = 1 THEN file.history_1
                                                  ELSE file.history_2))
              IN /\ Len(History(s)) = MAX_HISTORY_SEC
                 /\ History(s) = IF Len(loaded) < MAX_HISTORY_SEC
                                 THEN NaNs(MAX_HISTORY_SEC - Len(loaded)) \o loaded
                                 ELSE LastN(loaded, MAX_HISTORY_SEC)

\* C21 (as claimed): every tick of smartguireal.py completes and schedules
\* the next one, whatever the drained message holds and whether or not the
\* notification call raises: a next tick is always scheduled.
C21_RealTickAlwaysScheduled == next_tick # NoTick

\* one run of update_temperature_display of STClaudeGUI.py
UpdateStep == gui.pc = "after" /\ gui'.pc = "idle"

\* C22 (as claimed): every present value update_temperature_display appends
\* to temp1_data or temp2_data is the Celsius reading current_temp1 /
\* current_temp2, whatever temp_unit is at the time.
C22_AppendedValueIsCelsius ==
    [][UpdateStep =>
         /\ Present(Newest(history_1')) => Newest(history_1') = temps_c[1]
         /\ (Temp2Guard(history_2, history_1') /\ Present(Newest(history_2')))
               => Newest(history_2') = temps_c[2]]_vars

\* C23 (as claimed): after every tick of SmartThermometerProgram.py the label
\* of sensor s reads "OFF" whenever command_state of the sensor is false,
\* also when the link is not live; it reads "no data" when the sensor is
\* desired on and the tick has no live value for it, and it shows a
\* formatted value only otherwise.
C23_LabelFollowsDesiredState ==
    [][TickStep =>
         \A s \in Sensors :
            LET desired == command_state'[SensorKey(s)]
                no_value == ~third_box_on' \/ IsNone(temps_c'[s])
            IN /\ ~desired => labels'[s] = "OFF"
               /\ (desired /\ no_value)
                     => labels'[s] \in {"No data available", "no data available"}
               /\ labels'[s] = "value" => (desired /\ ~no_value)]_vars

\* request h returns its response
Responds(h) == handlers[h].pc = "resp3" /\ handlers'[h].pc = "idle"

\* C24 (as claimed): the triple (sensor1, sensor2, display_on) a request
\* returns is the value command_state held at one instant during the
\* request, under every interleaving with toggle_sensor_cmd.
C24_ResponseIsOneSnapshot ==
    [][\A h \in Handlers :
          Responds(h) =>
             \E cs \in obs.held[h] :
                /\ handlers'[h].resp.sensor1 = cs["sensor1"]
                /\ handlers'[h].resp.sensor2 = cs["sensor2"]
                /\ handlers'[h].resp.display_on = cs["display_on"]]_vars

\* C25 (as claimed): in every reachable state data_queue holds at most one
\* pending message, a post that arrives while an earlier message is still
\* undrained taking its place.
C25_AtMostOnePending == Len(data_queue) <= 1

\* C26 (as claimed): a tick of SmartThermometerProgram.py never waits for
\* the notification service: a tick that is due appends to the histories
\* and asks for the next tick whether or not the SMS send that check_alerts
\* started ever completes.
C26_TickDoesNotWaitForSend == (now >= next_tick) ~> TickJustRan

\* the step changes the display unit, or redraws outside a tick
UnitsOrRedrawStep ==
    \/ display_units' # display_units
    \/ obs'.redraw # obs.redraw /\ obs'.redraw.standalone

\* C27: redraw_graph and toggle_units leave history_1 and history_2 alone; a
\* redraw_graph that follows another with no tick and no unit toggle between
\* them, or with exactly two unit toggles between them, computes the series
\* the first one computed (previous[1] is empty when there was no first).
C27_RedrawIsRepeatable ==
    /\ [][UnitsOrRedrawStep => UNCHANGED <<history_1, history_2>>]_vars
    /\ []((/\ obs.redraw.standalone
            /\ obs.redraw.previous[1] # <<>>
            /\ obs.redraw.toggles \in {0, 2})
             => obs.drawn = obs.redraw.previous)

\* the unit was F, was toggled to C and back to F, and redraw_graph, called
\* after a redraw in F, drew the reading 33 as 91.4 again
C27_Witness ==
    /\ obs.redraw.standalone /\ obs.redraw.toggles = 2
    /\ display_units = "F"
    /\ Newest(history_1) = Num(33)
    /\ Newest(obs.redraw.previous[1]) = [k |-> "fifths", v |-> 457]
    /\ Newest(obs.drawn[1]) = [k |-> "fifths", v |-> 457]

\* C28: one call of check_alerts makes at most one notification call; when
\* the call of client.messages.create raises, check_alerts still returns
\* with last_alert_time of that sensor and kind stamped with the time of the
\* call, and no two notification calls for one sensor and kind, failed or
\* not, are less than ALERT_COOLDOWN apart.
C28_FailedSendStillStamped ==
    /\ [][sms' # sms =>
            /\ Len(sms') = Len(sms) + 1
            /\ Newest(sms').at = now
            /\ last_alert_time'[Newest(sms').key] = now]_vars
    /\ [](\A i, j \in 1..Len(sms) :
            (i < j /\ sms[i].key = sms[j].key)
                => sms[j].at - sms[i].at >= ALERT_COOLDOWN)

\* the only notification call so far, for sensor 1 above the threshold,
\* raised; its time is stamped, and one half-second short of ALERT_COOLDOWN
\* later no second call has been made
C28_Witness ==
    /\ obs.failed.send
    /\ sms = <<[key |-> "sensor1_high", at |-> StartTime]>>
    /\ last_alert_time["sensor1_high"] = StartTime
    /\ now = StartTime + ALERT_COOLDOWN - 1

\* C29 (as claimed): send_temperature_alert of STClaudeGUI.py keeps a
\* cooldown: of two consecutive calls of update_temperature_display that
\* find a sensor out of range on the same side, the second one sends no
\* alert for it.
C29_NoAlertOnEveryCall ==
    [][UpdateStep => obs'.alerted \cap obs.alerted = {}]_vars

\* new is old after one append to a deque of capacity TEMP_DATA_MAXLEN
OneAppended(old, new) ==
    IF Len(old) < TEMP_DATA_MAXLEN
    THEN Len(new) = Len(old) + 1 /\ SubSeq(new, 1, Len(old)) = old
    ELSE Len(new) = Len(old) /\ SubSeq(new, 1, Len(new) - 1) = Tail(old)

\* C30 (as claimed): every call of update_temperature_display appends
\* exactly one entry to temp1_data and exactly one to temp2_data, also once
\* both deques are full, so that entries at the same index come from the
\* same update.
C30_BothDequesAppended ==
    [][UpdateStep =>
         /\ OneAppended(history_1, history_1')
         /\ OneAppended(history_2, history_2')]_vars

\* the alert keys of sensor s
KeysOf(s) == {AlertKey(SensorKey(s), kind) : kind \in {"high", "low"}}

\* C31 (as claimed): an update of STClaudeGUI.py sends no alert for a sensor
\* whose hardware-enabled flag is false, that is for a sensor whose reading
\* the same update records as missing.
C31_NoAlertForDisabledSensor ==
    [][UpdateStep =>
         \A s \in Sensors :
            ~sensors_enabled[s] => obs'.alerted \cap KeysOf(s) = {}]_vars

\* a tick of smartguireal.py runs, to its end or to the exception that ends it
RealTickRuns == next_tick # NoTick /\ next_tick' # next_tick

\* C32: in smartguireal.py a notification for a sensor is only sent by a
\* tick that drained a message whose latest reading for that sensor is
\* present; a tick that drained no message sends nothing, although its
\* alert logic runs with the stored reading.
C32_RealNotifiesOnlyOnReading ==
    [][\A s \in Sensors :
          NotifiedFor(s) => /\ RealTickRuns
                            /\ data_queue # <<>>
                            /\ ~IsNone(DrainedReading(s))]_vars

\* a tick without a message has just run its alert logic with the stored
\* reading of sensor 1, which is above HIGH_C, and sent nothing: the only
\* notification is the one of the tick before, which drained that reading
C32_Witness ==
    /\ now = StartTime + 2 * UPDATE_INTERVAL_MS
    /\ next_tick = now + UPDATE_INTERVAL_MS
    /\ history_1 = <<Num(HIGH_C + 1), NaN>>
    /\ sensors_enabled[1] /\ temps_c[1] = Num(HIGH_C + 1)
    /\ last_alert_state[1] = "high"
    /\ sms = <<[key |-> "sensor1_high", at |-> StartTime + UPDATE_INTERVAL_MS]>>

\* C33: a completed tick of smartguireal.py that finds last_alert_state of
\* a sensor at "high" and its reading below LOW_C sends a low notification
\* and leaves the state at "low", and symmetrically from "low" with a
\* reading above HIGH_C to "high"; and no high notification for a sensor
\* is sent while, since the high notification before it, no low
\* notification was sent for it and no tick evaluated a reading of it in
\* [LOW_C, HIGH_C].
C33_OppositeEdgeWithoutRearm ==
    /\ [][TickStepReal =>
            \A s \in Sensors :
               /\ (/\ last_alert_state[s] = "high"
                   /\ ReadingNow(s)
                   /\ temps_c'[s].v < LOW_C)
                  => /\ SentNow(s, "low")
                     /\ ~SentNow(s, "high")
                     /\ last_alert_state'[s] = "low"
               /\ (/\ last_alert_state[s] = "low"
                   /\ ReadingNow(s)
                   /\ temps_c'[s].v > HIGH_C)
                  => /\ SentNow(s, "high")
                     /\ ~SentNow(s, "low")
                     /\ last_alert_state'[s] = "high"]_vars
    /\ [][\A s \in Sensors : SentNow(s, "high") => ~obs.high_run[s]]_vars

\* sensor 1 read above HIGH_C, then below LOW_C, then above HIGH_C again in
\* three ticks: high, low and high notifications, never a reading in range
C33_Witness ==
    /\ sms = <<[key |-> "sensor1_high", at |-> StartTime + UPDATE_INTERVAL_MS],
               [key |-> "sensor1_low", at |-> StartTime + 2 * UPDATE_INTERVAL_MS],
               [key |-> "sensor1_high", at |-> StartTime + 3 * UPDATE_INTERVAL_MS]>>
    /\ history_1 = <<Num(LOW_C - 1), Num(HIGH_C + 1)>>
    /\ last_alert_state[1] = "high"
    /\ obs.high_run[1]
    /\ next_tick = now + UPDATE_INTERVAL_MS

\* the last_alert_state a reading of temp_c degrees stands for
StateFor(temp_c) ==
    IF temp_c > HIGH_C THEN "high" ELSE IF temp_c < LOW_C THEN "low" ELSE "None"

\* C34: alert state is per sensor. In smartguireal.py last_alert_state[s]
\* after a tick depends on last_alert_state[s] before it and on the reading
\* of sensor s only: it changes only with a reading of s, and after a
\* completed tick it is the state that reading stands for, or unchanged
\* without one, whatever the other sensor reads. In
\* SmartThermometerProgram.py a call of check_alerts for one sensor with a
\* reading above HIGH_ALERT_C (below LOW_ALERT_C) changes no entry of
\* last_alert_time but the high (low) entry of that sensor.
C34_AlertStatePerSensor ==
    /\ [][\A s \in Sensors :
            /\ last_alert_state'[s] # last_alert_state[s]
                  => /\ ReadingNow(s)
                     /\ last_alert_state'[s] = StateFor(temps_c'[s].v)
            /\ TickStepReal
                  => last_alert_state'[s] =
                        IF ReadingNow(s) THEN StateFor(temps_c'[s].v)
                        ELSE last_alert_state[s]]_vars
    /\ [][\A sensor_name \in {"sensor1", "sensor2"} :
            \A temp_c \in PerSensorReadings :
               check_alerts_call(sensor_name, temp_c) =>
                  \A key \in AlertKeys :
                     last_alert_time'[key] # last_alert_time[key]
                        => key = IF sensor_name = "sensor1"
                                 THEN (IF temp_c.v > HIGH_ALERT_C
                                       THEN "sensor1_high" ELSE "sensor1_low")
                                 ELSE (IF temp_c.v > HIGH_ALERT_C
                                       THEN "sensor2_high" ELSE "sensor2_low")]_vars

\* smartguireal.py: both sensors read above HIGH_C, then sensor 1 below
\* LOW_C and sensor 2 above HIGH_C again: the second tick moved the state of
\* sensor 1 to "low" and left that of sensor 2 at "high"
C34_Witness ==
    /\ RealRuns
    /\ history_1 = <<Num(HIGH_C + 1), Num(LOW_C - 1)>>
    /\ history_2 = <<Num(HIGH_C + 1), Num(HIGH_C + 1)>>
    /\ last_alert_state = [s \in Sensors |-> IF s = 1 THEN "low" ELSE "high"]
    /\ sms = <<[key |-> "sensor1_high", at |-> StartTime + UPDATE_INTERVAL_MS],
               [key |-> "sensor2_high", at |-> StartTime + UPDATE_INTERVAL_MS],
               [key |-> "sensor1_low", at |-> StartTime + 2 * UPDATE_INTERVAL_MS]>>

\* C35 (as claimed): a tick of SmartThermometerProgram.py that drained a
\* message labels sensor s "OFF" exactly when it read s as not desired for
\* the history append and the alerts, under every interleaving with
\* receive_data: it never appends a present value for s and labels it
\* "OFF", and never labels s with a value after appending missing because
\* it read s as not desired.
C35_GateAndLabelAgree ==
    [][(TickStep /\ obs.tick.drained # <<>>) =>
         \A s \in Sensors :
            /\ ~(Present(Newest(History(s)')) /\ labels'[s] = "OFF")
            /\ ~(labels'[s] = "value" /\ ~sensors_enabled'[s])
            /\ labels'[s] = "OFF" <=> ~sensors_enabled'[s]]_vars

\* C36 (as claimed): the drain loop of periodic_update ends in every tick,
\* also while request threads keep enqueuing: a tick that is in the loop
\* leaves it.
C36_DrainLoopEnds == (gui.pc = "drain") ~> (gui.pc # "drain")

\* C37 (as claimed): last_recv_time never decreases from one tick of
\* SmartThermometerProgram.py to the next, and the message a tick uses has
\* the greatest server_recv_time of the messages it drains, also when
\* several request threads run concurrently.
C37_LatestStampWins ==
    [][TickStep =>
         /\ last_recv_time' >= last_recv_time
         /\ \A i \in 1..Len(data_queue) :
               last_recv_time' >= data_queue[i].server_recv_time]_vars

\* the other sensor
Other(s) == 3 - s

\* C38: in both programs command_state["display_on"] is true in every
\* reachable state; last_changed["sensor<s>"] changes only in a step that
\* is toggle_sensor_cmd(s), so a request whose report is accepted does not
\* stamp it, and last_changed["display_on"] never changes; and
\* toggle_sensor_cmd(s) flips command_state of s, stamps s with the time of
\* the call and leaves command_state and last_changed of the other sensor
\* as they are.
C38_CommandStateFrame ==
    /\ [](command_state["display_on"])
    /\ [][/\ last_changed'["display_on"] = last_changed["display_on"]
          /\ \A s \in Sensors :
                last_changed'[SensorKey(s)] # last_changed[SensorKey(s)]
                   => toggle_sensor_cmd(s)]_vars
    /\ [][\A s \in Sensors :
            toggle_sensor_cmd(s) =>
               /\ command_state'[SensorKey(s)] = ~command_state[SensorKey(s)]
               /\ last_changed'[SensorKey(s)] = now
               /\ command_state'[SensorKey(Other(s))] = command_state[SensorKey(Other(s))]
               /\ last_changed'[SensorKey(Other(s))] = last_changed[SensorKey(Other(s))]]_vars

\* smartguireal.py: a request reported sensor 1 on and was accepted, which
\* left last_changed of sensor 1 at its initial value, and the user then
\* switched sensor 2 on, which stamped sensor 2 only
C38_Witness ==
    /\ RealRuns
    /\ command_state = [k \in CommandKeys |-> TRUE]
    /\ obs.reported[1] = "True" /\ ~obs.toggled[1] /\ obs.toggled[2]
    /\ last_changed = [k \in CommandKeys |->
                          IF k = "sensor2" THEN StartTime + 1 ELSE 0]
====
